---------------------------- MODULE Spec2Model ----------------------------
(* Backend handler of ivy (src/ivy/utils/backend/handler.py): the backend   *)
(* stack, the rebinding of the public namespace ivy.__dict__ to a backend,  *)
(* backend inference and the backend_setter lock.                           *)
(*                                                                          *)
(* A backend module is identified by its locator (the values of             *)
(* _backend_dict).  A dictionary is a function whose DOMAIN is its key set. *)
(* A function object is a record [owner, fn, name, wrapped, comp]: the      *)
(* module that defines it, the attribute it was defined as, its __name__,   *)
(* and the provenance that _wrap_function leaves on it.  Only function- and *)
(* dtype-valued attributes of ivy.__dict__ are modelled (no sub-namespace   *)
(* modules).  A Python string that the code parses is a sequence of         *)
(* one-character strings.                                                   *)
EXTENDS Integers, Sequences, FiniteSets, TLC

VARIABLES
    backend_stack,        \* handler.backend_stack: sequence of backend modules
    ivy_dict,             \* ivy.__dict__ restricted to the modelled names
    ivy_original_dict,    \* handler.ivy_original_dict (the snapshot)
    backend_dicts,        \* module locator -> that backend module's __dict__
    implicit_backend,     \* handler.implicit_backend
    default_device_stack, \* depth of ivy's default-device stack
    RNG,                  \* whether the global attribute ivy.RNG exists
    lock,                 \* ivy.locks["backend_setter"]: 0 free, else holder
    objs,                 \* the live ivy.Array and ivy.Container objects
    installed,            \* environment: the backend modules that import
    f_version,            \* environment: __version__ of each backend's framework
    th,                   \* per thread: where it is in its call, and its locals
    meta_path,            \* sys.meta_path: the import finders installed
    path_hooks,           \* ivy.utils._importlib.path_hooks
    compiled_backends,    \* handler.compiled_backends: key -> local package
    last                  \* the last completed call and how it ended

vars == <<backend_stack, ivy_dict, ivy_original_dict, backend_dicts,
          implicit_backend, default_device_stack, RNG, lock, objs, installed, f_version,
          th, meta_path, path_hooks, compiled_backends, last>>

\* the import machinery and the packages made by with_backend
imports == <<meta_path, path_hooks, compiled_backends>>

-----------------------------------------------------------------------------
(* Registry tables *)

NumpyMod == "ivy.functional.backends.numpy"
JaxMod == "ivy.functional.backends.jax"
TensorflowMod == "ivy.functional.backends.tensorflow"
TorchMod == "ivy.functional.backends.torch"
MindsporeMod == "ivy.functional.backends.mindspore"

_array_types ==
    [m \in {"numpy", "jax.interpreters.xla", "jaxlib.xla_extension",
            "tensorflow.python.framework.ops",
            "tensorflow.python.ops.resource_variable_ops",
            "torch", "torch.nn.parameter",
            "mindspore", "mindspore.common.tensor"} |->
        CASE m = "numpy" -> NumpyMod
          [] m \in {"jax.interpreters.xla", "jaxlib.xla_extension"} -> JaxMod
          [] m \in {"tensorflow.python.framework.ops",
                    "tensorflow.python.ops.resource_variable_ops"} -> TensorflowMod
          [] m \in {"torch", "torch.nn.parameter"} -> TorchMod
          [] OTHER -> MindsporeMod]

_backend_dict ==
    [n \in {"numpy", "jax", "tensorflow", "torch", "mindspore"} |->
        CASE n = "numpy" -> NumpyMod
          [] n = "jax" -> JaxMod
          [] n = "tensorflow" -> TensorflowMod
          [] n = "torch" -> TorchMod
          [] OTHER -> MindsporeMod]

_backend_reverse_dict ==
    [m \in {NumpyMod, JaxMod, TensorflowMod, TorchMod, MindsporeMod} |->
        CHOOSE n \in DOMAIN _backend_dict : _backend_dict[n] = m]

Modules == DOMAIN _backend_reverse_dict

\* backend.current_backend_str() of a backend module
current_backend_str(m) == _backend_reverse_dict[m]

None == "None"

-----------------------------------------------------------------------------
(* The library namespace and the backend modules as first imported *)

\* names of ivy.__dict__ captured by ivy.__dict__.copy()
OriginalNames == {"add", "gelu", "bfloat16"}

Fn(owner, name) ==
    [owner |-> owner, fn |-> name, name |-> name, wrapped |-> FALSE, comp |-> FALSE]

\* ivy.__dict__ as the library itself defines it
IvyDict0 == [k \in OriginalNames |-> Fn("ivy", k)]

\* the attributes each backend module defines itself, in definition order
AttrOrder(m) ==
    CASE m = NumpyMod -> <<"add">>
      [] m = JaxMod -> <<"add", "gelu">>
      [] m = TorchMod -> <<"add", "gelu_v_1p0_to_1p5", "gelu_v_1p6_and_above">>
      [] m = TensorflowMod ->
            <<"add", "gelu", "gelu_v_1p0_to_1p6", "gelu_v_1p5_to_1p6">>
      [] OTHER -> <<"add">>

NativeAttrs(m) == {AttrOrder(m)[i] : i \in DOMAIN AttrOrder(m)}

BackendDict0(m) == [k \in NativeAttrs(m) |-> Fn(m, k)]

\* backend.invalid_dtypes
invalid_dtypes(m) == IF m = NumpyMod THEN {"bfloat16"} ELSE {}

-----------------------------------------------------------------------------
(* Dictionary helpers *)

Has(d, k) == k \in DOMAIN d
Put(d, k, v) == [x \in DOMAIN d \cup {k} |-> IF x = k THEN v ELSE d[x]]
Last(s) == s[Len(s)]
Front(s) == SubSeq(s, 1, Len(s) - 1)
RECURSIVE Reverse(_)
Reverse(s) == IF s = <<>> THEN <<>> ELSE Append(Reverse(Tail(s)), Head(s))

-----------------------------------------------------------------------------
(* Python strings *)

\* the spelling of the attribute names and version strings of the model
Chars(str) ==
    CASE str = "add" -> <<"a", "d", "d">>
      [] str = "gelu" -> <<"g", "e", "l", "u">>
      [] str = "bfloat16" -> <<"b", "f", "l", "o", "a", "t", "1", "6">>
      [] str = "gelu_v_1p0_to_1p5" ->
            <<"g", "e", "l", "u", "_", "v", "_", "1", "p", "0", "_", "t", "o", "_",
              "1", "p", "5">>
      [] str = "gelu_v_1p6_and_above" ->
            <<"g", "e", "l", "u", "_", "v", "_", "1", "p", "6", "_", "a", "n", "d", "_",
              "a", "b", "o", "v", "e">>
      [] str = "gelu_v_1p0_to_1p6" ->
            <<"g", "e", "l", "u", "_", "v", "_", "1", "p", "0", "_", "t", "o", "_",
              "1", "p", "6">>
      [] str = "gelu_v_1p5_to_1p6" ->
            <<"g", "e", "l", "u", "_", "v", "_", "1", "p", "5", "_", "t", "o", "_",
              "1", "p", "6">>
      [] str = "_v_" -> <<"_", "v", "_">>
      [] str = "_to_" -> <<"_", "t", "o", "_">>
      [] str = "_and_" -> <<"_", "a", "n", "d", "_">>
      [] str = "_and_above" -> <<"_", "a", "n", "d", "_", "a", "b", "o", "v", "e">>
      [] str = "_and_below" -> <<"_", "a", "n", "d", "_", "b", "e", "l", "o", "w">>
      [] str = "+" -> <<"+">>
      [] str = "+cu117" -> <<"+", "c", "u", "1", "1", "7">>
      [] str = "rc1" -> <<"r", "c", "1">>
      [] str = "1.4.0" -> <<"1", ".", "4", ".", "0">>
      [] str = "2.0.0" -> <<"2", ".", "0", ".", "0">>
      [] str = "1.5.0" -> <<"1", ".", "5", ".", "0">>
      [] str = "2.0.0+cu117" -> <<"2", ".", "0", ".", "0", "+", "c", "u", "1", "1", "7">>
      [] str = "2.0.0rc1" -> <<"2", ".", "0", ".", "0", "r", "c", "1">>

Strings == {"add", "gelu", "bfloat16", "gelu_v_1p0_to_1p5", "gelu_v_1p6_and_above",
            "gelu_v_1p0_to_1p6", "gelu_v_1p5_to_1p6"}

\* the attribute name spelled cs
Str(cs) == CHOOSE str \in Strings : Chars(str) = cs

\* the least element of a set of positions, 0 for the empty set
FirstOf(at) == IF at = {} THEN 0 ELSE CHOOSE i \in at : \A j \in at : i <= j

\* s.find(sub), counting positions from 1; 0 when sub does not occur
Find(s, sub) ==
    FirstOf({i \in 1..(Len(s) - Len(sub) + 1) : SubSeq(s, i, i + Len(sub) - 1) = sub})

\* sub in s
Contains(s, sub) == Find(s, sub) # 0

\* s.split(sep) for a one-character sep; SplitAt is given the first
\* position i of sep in s
RECURSIVE Split(_, _)
SplitAt(s, sep, i) ==
    IF i = 0 THEN <<s>>
    ELSE <<SubSeq(s, 1, i - 1)>> \o Split(SubSeq(s, i + 1, Len(s)), sep)

Split(s, sep) == SplitAt(s, sep, Find(s, <<sep>>))

Digits == <<"0", "1", "2", "3", "4", "5", "6", "7", "8", "9">>
IsDigit(c) == \E d \in DOMAIN Digits : Digits[d] = c
DigitValue(c) == (CHOOSE d \in DOMAIN Digits : Digits[d] = c) - 1

\* whether int(s) succeeds, for s made of letters, digits, ".", "_" and "+"
\* with no "_" between digits
IsInt(s) == s # <<>> /\ \A i \in DOMAIN s : IsDigit(s[i])

RECURSIVE ToInt(_)
ToInt(s) ==
    IF s = <<>> THEN 0 ELSE 10 * ToInt(SubSeq(s, 1, Len(s) - 1)) + DigitValue(s[Len(s)])

\* tuple(map(int, parts)): the tuple, or BadTuple when int() raises
BadTuple == <<-1>>
Ints(parts) ==
    IF \A i \in DOMAIN parts : IsInt(parts[i])
        THEN [i \in DOMAIN parts |-> ToInt(parts[i])]
        ELSE BadTuple

\* tuple(map(int, s.split(sep)))
IntTuple(s, sep) == Ints(Split(s, sep))

\* InRange without the test against the end of the range
InRangeFromStart(name, version, i, version_start, version_end) ==
    IF i = 0 \/ version_start = BadTuple \/ version_end = BadTuple
        THEN [err |-> "ValueError", ret |-> <<>>]
    ELSE IF version_start = <<>> \/ version = <<>> \/ Head(version_start) <= Head(version)
        THEN [err |-> "ok", ret |-> SubSeq(name, 1, i - 1)]
    ELSE [err |-> "ok", ret |-> <<>>]

\* a <= b for Python tuples of integers
RECURSIVE TupleLE(_, _)
TupleLE(a, b) ==
    IF a = <<>> THEN TRUE
    ELSE IF b = <<>> THEN FALSE
    ELSE IF Head(a) # Head(b) THEN Head(a) < Head(b)
    ELSE TupleLE(Tail(a), Tail(b))

\* how fn_name_from_version_specific_fn_name ends: the ValueError raised by
\* int() or index(), or the value returned (NoName for None)
Raised(e) == [err |-> e, ret |-> <<>>]
Returned(v) == [err |-> "ok", ret |-> v]
NoName == <<>>

\* VersionTuple parsing the whole string, a local build tag included
VersionTupleWhole(version, plus) == IntTuple(version, ".")

\* lines 143-146: the version as a tuple; plus is version.find("+")
VersionTuple(version, plus) ==
    IF plus # 0 THEN IntTuple(SubSeq(version, 1, plus - 1), ".")
    ELSE IntTuple(version, ".")

\* lines 154-155: the range test of a name "<fn>_v_<start>_to_<end>"
InRange(name, version, i, version_start, version_end) ==
    IF i = 0 \/ version_start = BadTuple \/ version_end = BadTuple
        THEN Raised("ValueError")
    ELSE IF TupleLE(version_start, version) /\ TupleLE(version, version_end)
        THEN Returned(SubSeq(name, 1, i - 1))
    ELSE Returned(NoName)

\* lines 148-155; e is name.index("_to_")
Between(name, version, i, e) ==
    InRange(name, version, i, IntTuple(SubSeq(name, i + 3, e - 1), "p"),
            IntTuple(SubSeq(name, e + 4, Len(name)), "p"))

\* OneSided selecting the name whatever the version
OneSidedAlways(name, version, i, e, version_start) ==
    IF i = 0 \/ e = 0 \/ version_start = BadTuple THEN Raised("ValueError")
    ELSE Returned(SubSeq(name, 1, i - 1))

\* lines 161-162 and 168-169: the test of a name "<fn>_v_<start>_and_above"
\* and of any other name with "_and_"
OneSided(name, version, i, e, version_start) ==
    IF i = 0 \/ e = 0 \/ version_start = BadTuple THEN Raised("ValueError")
    ELSE IF Contains(name, Chars("_and_above"))
        THEN IF TupleLE(version_start, version)
                 THEN Returned(SubSeq(name, 1, i - 1))
                 ELSE Returned(NoName)
    ELSE IF TupleLE(version, version_start)
        THEN Returned(SubSeq(name, 1, i - 1))
        ELSE Returned(NoName)

\* lines 157-169; e is name.index("_and_")
AndAboveOrBelow(name, version, i, e) ==
    OneSided(name, version, i, e, IntTuple(SubSeq(name, i + 3, e - 1), "p"))

\* lines 147-169, with the version parsed and i = name.index("_v_")
Resolve(name, version, i) ==
    IF version = BadTuple THEN Raised("ValueError")
    ELSE IF Contains(name, Chars("_to_"))
        THEN Between(name, version, i, Find(name, Chars("_to_")))
    ELSE AndAboveOrBelow(name, version, i, Find(name, Chars("_and_")))

\* fn_name_from_version_specific_fn_name(name, version), lines 142-169
fn_name_from_version_specific_fn_name(name, version) ==
    Resolve(name, VersionTuple(version, Find(version, Chars("+"))),
            Find(name, Chars("_v_")))

\* set_backend_to_specific_version(backend), the loop of lines 189-194 over
\* the keys todo of the module dictionary backend: the dictionary after it,
\* or the exception that ended it.  Renamed is the function of lines 193-194
\* and VersionStep the body of the loop for a key with "_v_", given what
\* line 191 returned.
RECURSIVE VersionLoop(_, _, _)
Renamed(fn, orig_name) == [fn EXCEPT !.name = orig_name]

Aliased(backend, key, orig_name) ==
    Put(Put(backend, key, Renamed(backend[key], orig_name)),
        orig_name, Renamed(backend[key], orig_name))

\* VersionStep leaving a canonical name that a variant is bound to
VersionStepFirstWins(backend, todo, version, r) ==
    IF r.err # "ok" THEN [err |-> r.err, backend |-> backend]
    ELSE IF r.ret = NoName THEN VersionLoop(backend, Tail(todo), version)
    ELSE IF /\ Has(backend, Str(r.ret))
            /\ Contains(Chars(backend[Str(r.ret)].fn), Chars("_v_"))
        THEN VersionLoop(backend, Tail(todo), version)
    ELSE VersionLoop(Aliased(backend, Head(todo), Str(r.ret)), Tail(todo), version)

VersionStep(backend, todo, version, r) ==
    IF r.err # "ok" THEN [err |-> r.err, backend |-> backend]
    ELSE IF r.ret = NoName THEN VersionLoop(backend, Tail(todo), version)
    ELSE VersionLoop(Aliased(backend, Head(todo), Str(r.ret)), Tail(todo), version)

VersionLoop(backend, todo, version) ==
    IF todo = <<>> THEN [err |-> "ok", backend |-> backend]
    ELSE IF ~Contains(Chars(Head(todo)), Chars("_v_"))
        THEN VersionLoop(backend, Tail(todo), version)
    ELSE VersionStep(backend, todo, version,
                     fn_name_from_version_specific_fn_name(Chars(Head(todo)), version))

\* set_backend_to_specific_version(backend), lines 183-194: keys lists the
\* keys of backend.__dict__ in their order, version is f.__version__
set_backend_to_specific_version(backend, keys, version) ==
    VersionLoop(backend, keys, version)

\* ivy.func_wrapper._wrap_function(key, to_wrap, original, compositional):
\* marks the function wrapped and records its provenance; a function that
\* already carries the marker is returned as it is.
_wrap_function(key, to_wrap, original, compositional) ==
    IF to_wrap.wrapped THEN to_wrap
    ELSE [to_wrap EXCEPT !.wrapped = TRUE, !.comp = compositional]


-----------------------------------------------------------------------------
(* Bounds *)

MaxStack == 3
MaxCalls == 1
MaxLocal == 2

Threads == {1, 2}

\* the names passed to set_backend: registered ones and one that is not
SetNames == {"numpy", "jax", "torch", "mxnet"}
DynNames == {"numpy", "torch", "mxnet"}
ConcNames == {"jax", "mxnet"}

-----------------------------------------------------------------------------
(* The handler's globals as one value, and the handler's functions on it *)

G == [stack |-> backend_stack, ivy |-> ivy_dict, orig |-> ivy_original_dict,
      mods |-> backend_dicts, implicit |-> implicit_backend,
      dev |-> default_device_stack, rng |-> RNG, lock |-> lock, objs |-> objs]

\* ivy.set_default_device("cpu") pushes; ivy.unset_default_device() pops
\* when the stack of default devices is not empty
set_default_device(dev) == dev + 1
unset_default_device(dev) == IF dev > 0 THEN dev - 1 ELSE dev

\* set_backend, lines 447-450, and unset_backend, lines 590-595
SetSpecificVars(g, backend) ==
    IF current_backend_str(backend) = "numpy"
        THEN [g EXCEPT !.dev = set_default_device(g.dev)]
    ELSE IF current_backend_str(backend) = "jax"
        THEN [g EXCEPT !.rng = TRUE]
    ELSE g

\* unset_backend, lines 583-586
UnsetSpecificVars(g, backend) ==
    IF current_backend_str(backend) = "numpy"
        THEN [g EXCEPT !.dev = unset_default_device(g.dev)]
    ELSE IF current_backend_str(backend) = "jax"
        THEN [g EXCEPT !.rng = FALSE]
    ELSE g

\* Removed without the test that the key is an invalid dtype
RemovedWhenMissing(original_dict, target, backend, invalid) ==
    {k \in DOMAIN original_dict : k \notin DOMAIN backend /\ k \in DOMAIN target}

\* _set_backend_as_ivy(original_dict, target, backend): the loop of lines
\* 259-268.  A key the backend lacks and lists as an invalid dtype is
\* deleted from the target when it is there; any other key the backend lacks
\* is copied into the backend module; the target gets the wrapped function.
Removed(original_dict, target, backend, invalid) ==
    {k \in DOMAIN original_dict :
        ~Has(backend, k) /\ k \in invalid /\ Has(target, k)}

_set_backend_as_ivy(original_dict, target, backend, invalid) ==
    LET removed == Removed(original_dict, target, backend, invalid)
        kept == DOMAIN original_dict \ removed
        new_backend == [k \in DOMAIN backend \cup kept |->
                           IF Has(backend, k) THEN backend[k] ELSE original_dict[k]]
        new_target == [k \in (DOMAIN target \ removed) \cup kept |->
                          IF k \in kept
                              THEN _wrap_function(k, new_backend[k], original_dict[k],
                                                  ~Has(backend, k))
                              ELSE target[k]]
    IN  [target |-> new_target, backend |-> new_backend]

\* UnsetRebind reading the bottom of the stack instead of its top
UnsetRebindBottom(g) ==
    LET new_backend_dict == IF g.stack # <<>> THEN g.mods[Head(g.stack)] ELSE g.orig
        keys == {k \in DOMAIN new_backend_dict : Has(g.orig, k)}
    IN  [g EXCEPT !.ivy =
            [k \in DOMAIN g.ivy \cup keys |->
                IF k \in keys
                    THEN IF g.stack # <<>>
                            THEN _wrap_function(k, new_backend_dict[k], g.orig[k], FALSE)
                            ELSE new_backend_dict[k]
                    ELSE g.ivy[k]]]

\* unset_backend, lines 596-605: rebind the names of the snapshot to the new
\* top of the stack, or to the snapshot when the stack is empty
UnsetRebind(g) ==
    LET new_backend_dict == IF g.stack # <<>> THEN g.mods[Last(g.stack)] ELSE g.orig
        keys == {k \in DOMAIN new_backend_dict : Has(g.orig, k)}
    IN  [g EXCEPT !.ivy =
            [k \in DOMAIN g.ivy \cup keys |->
                IF k \in keys
                    THEN IF g.stack # <<>>
                            THEN _wrap_function(k, new_backend_dict[k], g.orig[k], FALSE)
                            ELSE new_backend_dict[k]
                    ELSE g.ivy[k]]]

\* unset_backend, line 582
UnsetPop(g) == [g EXCEPT !.stack = Front(g.stack)]

\* UnsetNewTop registering nothing for the new top
UnsetNewTopSkipped(g) == g

\* unset_backend, lines 590-595
UnsetNewTop(g) ==
    IF g.stack # <<>> THEN SetSpecificVars(g, Last(g.stack)) ELSE g

\* unset_backend returning the implicit default's module on the empty stack
unset_backend_returns_default(g) ==
    IF g.stack = <<>> THEN [g |-> g, ret |-> _backend_dict[g.implicit]]
    ELSE LET backend == Last(g.stack)
         IN  [g |-> UnsetRebind(UnsetNewTop(UnsetSpecificVars(UnsetPop(g), backend))),
              ret |-> backend]

\* unset_backend(): the globals after the call and the value returned
unset_backend(g) ==
    IF g.stack = <<>> THEN [g |-> g, ret |-> None]
    ELSE LET backend == Last(g.stack)
         IN  [g |-> UnsetRebind(UnsetNewTop(UnsetSpecificVars(UnsetPop(g), backend))),
              ret |-> backend]

\* set_backend, lines 441-443: pop every entry, collecting what was popped
RECURSIVE Unwind(_, _)
Unwind(g, temp_stack) ==
    IF g.stack = <<>> THEN [g |-> g, temp_stack |-> temp_stack]
    ELSE LET r == unset_backend(g)
         IN  Unwind(r.g, Append(temp_stack, r.ret))

\* clear_backend_stack making one unset_backend call
clear_backend_stack_once(g) == unset_backend(g).g

\* clear_backend_stack(), lines 613-614: unset_backend until the stack is empty
clear_backend_stack(g) == Unwind(g, <<>>).g

\* Replay with the popped entries appended in the order they were popped
ReplayInPopOrder(g, temp_stack) == [g EXCEPT !.stack = g.stack \o temp_stack]

\* set_backend, lines 445-446
Replay(g, temp_stack) == [g EXCEPT !.stack = g.stack \o Reverse(temp_stack)]

\* set_backend, lines 438-439
Snapshot(g) == IF g.stack = <<>> THEN [g EXCEPT !.orig = g.ivy] ELSE g

\* set_backend, line 453
Rebind(g, backend) ==
    LET r == _set_backend_as_ivy(g.orig, g.ivy, g.mods[backend], invalid_dtypes(backend))
    IN  [g EXCEPT !.ivy = r.target, !.mods[backend] = r.backend]

\* Python values passed as arguments: kind is the value's type ("list",
\* "tuple", "dict", "ivy.Array" or "object"), module its class's __module__,
\* items its elements (dict values in iteration order; the payload of an
\* ivy.Array)
Obj(module) == [kind |-> "object", module |-> module, items |-> <<>>]
List(items) == [kind |-> "list", module |-> "builtins", items |-> items]
Tuple(items) == [kind |-> "tuple", module |-> "builtins", items |-> items]
Dict(items) == [kind |-> "dict", module |-> "builtins", items |-> items]
IvyArray(data) == [kind |-> "ivy.Array", module |-> "ivy.data_classes.array.array",
                   items |-> <<data>>]

\* _determine_backend_from_args(args), lines 101-122
RECURSIVE _determine_backend_from_args(_)
RECURSIVE FirstLib(_)
FirstLib(items) ==
    IF items = <<>> THEN None
    ELSE LET lib == _determine_backend_from_args(Head(items))
         IN  IF lib # None THEN lib ELSE FirstLib(Tail(items))

\* _determine_backend_from_args looking at an ivy.Array without its payload
_determine_backend_no_unwrap(args) ==
    IF args.kind = "dict" THEN FirstLib(args.items)
    ELSE IF args.kind \in {"list", "tuple"} THEN FirstLib(args.items)
    ELSE IF args.module \in DOMAIN _array_types THEN _array_types[args.module]
    ELSE None

_determine_backend_from_args(args) ==
    LET arg_type == args.kind
        a == IF args.kind = "ivy.Array" THEN args.items[1] ELSE args
    IN  IF a.kind = "dict" THEN FirstLib(a.items)
        ELSE IF arg_type \in {"list", "tuple"} THEN FirstLib(a.items)
        ELSE IF a.module \in DOMAIN _array_types THEN _array_types[a.module]
        ELSE None

\* current_backend inferring from the arguments before it looks at the stack
current_backend_infers_first(g, args) ==
    LET f == _determine_backend_from_args(args)
    IN  IF f # None
            THEN [g |-> [g EXCEPT !.implicit = _backend_reverse_dict[f]], ret |-> f]
        ELSE IF g.stack # <<>> THEN [g |-> g, ret |-> Last(g.stack)]
        ELSE [g |-> g, ret |-> _backend_dict[g.implicit]]

\* current_backend falling back to numpy instead of implicit_backend
current_backend_numpy_fallback(g, args) ==
    IF g.stack # <<>> THEN [g |-> g, ret |-> Last(g.stack)]
    ELSE LET f == _determine_backend_from_args(args)
         IN  IF f # None
                 THEN [g |-> [g EXCEPT !.implicit = _backend_reverse_dict[f]], ret |-> f]
                 ELSE [g |-> g, ret |-> _backend_dict["numpy"]]

\* current_backend(*args), lines 235-249; args is list(args) + list(kwargs.values())
\* (ivy.is_local() of line 230 is false for the global package modelled here)
current_backend(g, args) ==
    IF g.stack # <<>> THEN [g |-> g, ret |-> Last(g.stack)]
    ELSE LET f == _determine_backend_from_args(args)
         IN  IF f # None
                 THEN [g |-> [g EXCEPT !.implicit = current_backend_str(f)], ret |-> f]
                 ELSE [g |-> g, ret |-> _backend_dict[g.implicit]]

-----------------------------------------------------------------------------
(* Tracked objects and the dynamic backend conversion *)

\* A native payload: id is its identity (Python's id()), fw the backend
\* whose native array type it has (a numpy array is the neutral form), var
\* whether it is a variable of its framework, val the data it holds.
Payload(id, fw, var, val) == [id |-> id, fw |-> fw, var |-> var, val |-> val]

\* A tracked object: an ivy.Array holds one payload (its _data), an
\* ivy.Container its flat list of leaves.  The key of an object in objs is
\* its identity; gc.get_objects() lists the objects in the order of their keys.
Array(dynamic_backend, data) ==
    [kind |-> "Array", dynamic_backend |-> dynamic_backend, leaves |-> <<data>>]
Container(dynamic_backend, leaves) ==
    [kind |-> "Container", dynamic_backend |-> dynamic_backend, leaves |-> leaves]

\* the payload created for leaf i of object o by a conversion
OwnId(o, i) == <<"own", o, i>>

LeafIds(obj) == {obj.leaves[i].id : i \in DOMAIN obj.leaves}

RECURSIVE SortedSeq(_)
SortedSeq(S) ==
    IF S = {} THEN <<>>
    ELSE LET m == CHOOSE x \in S : \A y \in S : x <= y
         IN  <<m>> \o SortedSeq(S \ {m})

\* _is_var(obj), lines 294-318: numpy and jax payloads are never variables;
\* a container is one when every leaf is
_is_var(obj) ==
    \A i \in DOMAIN obj.leaves :
        /\ obj.leaves[i].fw \notin {NumpyMod, JaxMod}
        /\ obj.leaves[i].var

\* _remove_intermediate_arrays(arr_list, cont_list), lines 320-335: the
\* arrays whose payload is no leaf of any container, one array per payload
\* identity (the dictionary keeps the last array of arr_list for a key)
_remove_intermediate_arrays(live) ==
    LET arr_list == {o \in DOMAIN live : live[o].kind = "Array"}
        cont_ids == UNION {LeafIds(live[o]) : o \in {x \in DOMAIN live : live[x].kind = "Container"}}
    IN  {o \in arr_list :
            /\ live[o].leaves[1].id \notin cont_ids
            /\ \A o2 \in arr_list :
                  live[o2].leaves[1].id = live[o].leaves[1].id => o2 <= o}

\* lines 338-348
new_objs(live) ==
    SortedSeq(_remove_intermediate_arrays(live))
        \o SortedSeq({o \in DOMAIN live : live[o].kind = "Container"})

\* ivy.to_numpy of one payload with backend module cur doing the conversion:
\* cur recognises its own native arrays and numpy arrays
Recognised(cur, payload) == payload.fw \in {cur, NumpyMod}
to_numpy(o, i, payload) == Payload(OwnId(o, i), NumpyMod, FALSE, payload.val)

\* backend.asarray of one numpy payload, and _variable of the result
asarray(o, i, payload, target, variable) ==
    Payload(OwnId(o, i), target, variable, payload.val)

\* the backend that converts in the export phase: the top of the stack, or
\* the one inferred from the payload when no backend is set
Converter(g, payload) ==
    IF g.stack # <<>> THEN Last(g.stack) ELSE payload.fw

\* convert_from_source_backend_to_numpy, the loop of lines 352-367 over the
\* objects todo: the objects after it, variable_ids, numpy_objs, and the
\* error that ended it, if any
RECURSIVE ExportLoop(_, _, _, _)
ExportLoop(g, todo, variable_ids, numpy_objs) ==
    IF todo = <<>>
        THEN [g |-> g, variable_ids |-> variable_ids, numpy_objs |-> numpy_objs,
              err |-> "ok"]
    ELSE LET o == Head(todo)
             obj == g.objs[o]
         IN  IF ~obj.dynamic_backend
                 THEN ExportLoop(g, Tail(todo), variable_ids, numpy_objs)
             ELSE IF \E i \in DOMAIN obj.leaves :
                         ~Recognised(Converter(g, obj.leaves[i]), obj.leaves[i])
                 THEN [g |-> g, variable_ids |-> variable_ids,
                       numpy_objs |-> Append(numpy_objs, o), err |-> "ConversionError"]
             ELSE LET np_data == [i \in DOMAIN obj.leaves |-> to_numpy(o, i, obj.leaves[i])]
                  IN  ExportLoop([g EXCEPT !.objs[o].leaves = np_data], Tail(todo),
                                 IF _is_var(obj) THEN variable_ids \cup {o} ELSE variable_ids,
                                 Append(numpy_objs, o))

\* convert_from_source_backend_to_numpy(variable_ids, numpy_objs), lines 290-369
convert_from_source_backend_to_numpy(g) ==
    ExportLoop(g, new_objs(g.objs), {}, <<>>)

\* the import phase converting with the implicit default's backend
RECURSIVE import_with_implicit_backend(_, _, _)
import_with_implicit_backend(g, variable_ids, numpy_objs) ==
    IF numpy_objs = <<>> THEN [g |-> g, err |-> "ok"]
    ELSE LET o == Head(numpy_objs)
             obj == g.objs[o]
             target == _backend_dict[g.implicit]
         IN  IF \E i \in DOMAIN obj.leaves : obj.leaves[i].fw # NumpyMod
                 THEN [g |-> g, err |-> "ConversionError"]
             ELSE LET new_data == [i \in DOMAIN obj.leaves |->
                                      asarray(o, i, obj.leaves[i], target, o \in variable_ids)]
                  IN  import_with_implicit_backend(
                          [g EXCEPT !.objs[o].leaves = new_data], variable_ids,
                          Tail(numpy_objs))

\* the import phase never marking a result as a variable
RECURSIVE import_without_variables(_, _, _)
import_without_variables(g, variable_ids, numpy_objs) ==
    IF numpy_objs = <<>> THEN [g |-> g, err |-> "ok"]
    ELSE LET o == Head(numpy_objs)
             obj == g.objs[o]
             target == IF g.stack # <<>> THEN Last(g.stack) ELSE _backend_dict[g.implicit]
         IN  IF \E i \in DOMAIN obj.leaves : obj.leaves[i].fw # NumpyMod
                 THEN [g |-> g, err |-> "ConversionError"]
             ELSE LET new_data == [i \in DOMAIN obj.leaves |->
                                      asarray(o, i, obj.leaves[i], target, FALSE)]
                  IN  import_without_variables(
                          [g EXCEPT !.objs[o].leaves = new_data], variable_ids,
                          Tail(numpy_objs))

\* convert_from_numpy_to_target_backend(variable_ids, numpy_objs), lines
\* 378-395; current_backend() without arguments is the converting backend
RECURSIVE convert_from_numpy_to_target_backend(_, _, _)
convert_from_numpy_to_target_backend(g, variable_ids, numpy_objs) ==
    IF numpy_objs = <<>> THEN [g |-> g, err |-> "ok"]
    ELSE LET o == Head(numpy_objs)
             obj == g.objs[o]
             target == IF g.stack # <<>> THEN Last(g.stack) ELSE _backend_dict[g.implicit]
         IN  IF \E i \in DOMAIN obj.leaves : obj.leaves[i].fw # NumpyMod
                 THEN [g |-> g, err |-> "ConversionError"]
             ELSE LET new_data == [i \in DOMAIN obj.leaves |->
                                      asarray(o, i, obj.leaves[i], target, o \in variable_ids)]
                  IN  convert_from_numpy_to_target_backend(
                          [g EXCEPT !.objs[o].leaves = new_data], variable_ids,
                          Tail(numpy_objs))

-----------------------------------------------------------------------------
(* set_backend *)

\* lines 421-424
ValidBackend(backend) == backend \in DOMAIN _backend_dict

\* the keys of the module dictionary backend that the module defines itself
Keys(module, backend) == SelectSeq(AttrOrder(module), LAMBDA k : Has(backend, k))

\* line 452: the version step on the module dictionary of the new top; r is
\* how set_backend_to_specific_version ended
Versioned(g, module, r) == [g |-> [g EXCEPT !.mods[module] = r.backend], err |-> r.err]

SetVersion(g, module, env) ==
    Versioned(g, module,
              set_backend_to_specific_version(g.mods[module], Keys(module, g.mods[module]),
                                              env.version[module]))

\* Push leaving the stack alone when the module is already on top
PushUnlessOnTop(g, module) ==
    IF g.stack # <<>> /\ Last(g.stack) = module THEN g
    ELSE [g EXCEPT !.stack = Append(g.stack, module)]

\* line 451
Push(g, module) == [g EXCEPT !.stack = Append(g.stack, module)]

\* lines 458-460, after the import phase ended as c
Release(c) == IF c.err # "ok" THEN c ELSE [g |-> [c.g EXCEPT !.lock = 0], err |-> "ok"]

\* lines 453-460, after the version step ended as v
RebindAndImport(v, module, variable_ids, numpy_objs) ==
    IF v.err # "ok" THEN v
    ELSE Release(convert_from_numpy_to_target_backend(Rebind(v.g, module),
                                                      variable_ids, numpy_objs))

\* lines 436-460, entered with the lock held by thread t: the globals after
\* it and how it ended.  env is the environment: the backend modules that
\* import and the version each framework reports.
SetBackendLocked(g, backend, variable_ids, numpy_objs, env) ==
    LET module == _backend_dict[backend]
        u == Unwind(Snapshot(g), <<>>)
    IN  IF module \notin env.installed THEN [g |-> u.g, err |-> "ImportError"]
        ELSE RebindAndImport(
                 SetVersion(Push(SetSpecificVars(Replay(u.g, u.temp_stack), module),
                                 module), module, env),
                 module, variable_ids, numpy_objs)

\* set_backend running both conversion phases whatever dynamic is
set_backend_always_dynamic(g, backend, dynamic, t, env) ==
    IF ~ValidBackend(backend) THEN [g |-> g, err |-> "IvyException"]
    ELSE LET e == convert_from_source_backend_to_numpy(g)
         IN  IF e.err # "ok" THEN [g |-> e.g, err |-> e.err]
             ELSE IF e.g.lock # 0 THEN [g |-> e.g, err |-> "blocked"]
             ELSE SetBackendLocked([e.g EXCEPT !.lock = t], backend,
                                   e.variable_ids, e.numpy_objs, env)

\* set_backend validating the name only after the export phase
set_backend_late_check(g, backend, dynamic, t, env) ==
    LET e == IF dynamic THEN convert_from_source_backend_to_numpy(g)
             ELSE [g |-> g, variable_ids |-> {}, numpy_objs |-> <<>>, err |-> "ok"]
    IN  IF e.err # "ok" THEN [g |-> e.g, err |-> e.err]
        ELSE IF backend \notin DOMAIN _backend_dict THEN [g |-> e.g, err |-> "IvyException"]
        ELSE IF e.g.lock # 0 THEN [g |-> e.g, err |-> "blocked"]
        ELSE SetBackendLocked([e.g EXCEPT !.lock = t], backend,
                              e.variable_ids, e.numpy_objs, env)

\* set_backend taking the lock before the export phase
set_backend_export_locked(g, backend, dynamic, t, env) ==
    IF ~ValidBackend(backend) THEN [g |-> g, err |-> "IvyException"]
    ELSE IF g.lock # 0 THEN [g |-> g, err |-> "blocked"]
    ELSE LET e == IF dynamic THEN convert_from_source_backend_to_numpy([g EXCEPT !.lock = t])
                  ELSE [g |-> [g EXCEPT !.lock = t], variable_ids |-> {},
                        numpy_objs |-> <<>>, err |-> "ok"]
         IN  IF e.err # "ok" THEN [g |-> e.g, err |-> e.err]
             ELSE SetBackendLocked(e.g, backend, e.variable_ids, e.numpy_objs, env)

\* set_backend(backend, dynamic) called by thread t: the globals after the
\* call and how it ended ("ok", the exception raised, or "blocked" when the
\* lock is held and never obtained)
set_backend(g, backend, dynamic, t, env) ==
    IF ~ValidBackend(backend) THEN [g |-> g, err |-> "IvyException"]
    ELSE LET e == IF dynamic THEN convert_from_source_backend_to_numpy(g)
                  ELSE [g |-> g, variable_ids |-> {}, numpy_objs |-> <<>>, err |-> "ok"]
         IN  IF e.err # "ok" THEN [g |-> e.g, err |-> e.err]
             ELSE IF e.g.lock # 0 THEN [g |-> e.g, err |-> "blocked"]
             ELSE SetBackendLocked([e.g EXCEPT !.lock = t], backend,
                                   e.variable_ids, e.numpy_objs, env)

-----------------------------------------------------------------------------
(* get_backend *)

\* lines 541-543: the names of the snapshot the module lacks are copied
\* into the module
Filled(original_dict, backend) ==
    [k \in DOMAIN backend \cup DOMAIN original_dict |->
        IF Has(backend, k) THEN backend[k] ELSE original_dict[k]]

\* get_backend appending the module it returns to the stack
get_backend_pushing(g, backend, env) ==
    IF backend \notin DOMAIN _backend_dict THEN [g |-> g, ret |-> None, err |-> "KeyError"]
    ELSE [g |-> [g EXCEPT !.stack = Append(g.stack, _backend_dict[backend]),
                          !.mods[_backend_dict[backend]] =
                              Filled(g.orig, g.mods[_backend_dict[backend]])],
          ret |-> _backend_dict[backend], err |-> "ok"]

\* get_backend(backend), lines 530-544 (ivy.is_local() of line 528 is false
\* for the global package): the globals after the call, the value returned
\* and how it ended.  backend is None or a string.
get_backend(g, backend, env) ==
    LET s == Snapshot(g)
    IN  IF backend = None
            THEN IF s.stack = <<>>
                     THEN [g |-> current_backend(s, List(<<>>)).g, ret |-> "", err |-> "ok"]
                     ELSE [g |-> [s EXCEPT !.mods[Last(s.stack)] =
                                               Filled(s.orig, s.mods[Last(s.stack)])],
                           ret |-> Last(s.stack), err |-> "ok"]
        ELSE IF backend \notin DOMAIN _backend_dict
            THEN [g |-> s, ret |-> None, err |-> "KeyError"]
        ELSE IF _backend_dict[backend] \notin env.installed
            THEN [g |-> s, ret |-> None, err |-> "ImportError"]
        ELSE [g |-> [s EXCEPT !.mods[_backend_dict[backend]] =
                                  Filled(s.orig, s.mods[_backend_dict[backend]])],
              ret |-> _backend_dict[backend], err |-> "ok"]

-----------------------------------------------------------------------------
(* with_backend *)

\* list.remove(x): the list without the first x
RemoveFirst(s, x) ==
    IF \E i \in DOMAIN s : s[i] = x
        THEN LET i == CHOOSE i \in DOMAIN s : s[i] = x /\ \A j \in 1..(i - 1) : s[j] # x
             IN  SubSeq(s, 1, i - 1) \o SubSeq(s, i + 1, Len(s))
        ELSE s

\* ast_helpers.IvyPathFinder(): a new finder object, the id-th object made
IvyPathFinder(id) == [class |-> "IvyPathFinder", id |-> id]

\* _importlib._import_module("ivy") with the finder installed: a fresh copy
\* of the package, independent of the global one, with nothing set
_import_module(id) ==
    [id |-> id, _is_local_pkg |-> FALSE, backend_stack |-> <<>>, dict |-> IvyDict0,
     dev |-> 0, rng |-> FALSE]

\* lines 647-656 on the fresh package ivy_pack, backend_module being the
\* backend module imported for it
Bound(ivy_pack, module, r) ==
    [ivy_pack EXCEPT !._is_local_pkg = TRUE, !.dict = r.target,
                     !.backend_stack = Append(@, module)]

LocalPackage(ivy_pack, module) ==
    Bound(SetSpecificVars(ivy_pack, module), module,
          _set_backend_as_ivy(ivy_pack.dict, ivy_pack.dict, BackendDict0(module),
                              invalid_dtypes(module)))

\* lines 644-645
Inserted(imp, finder) ==
    [imp EXCEPT !.meta_path = <<finder>> \o @, !.path_hooks = <<finder>> \o @]

\* lines 658-661
Compiled(imp, finder, backend, ivy_pack) ==
    [imp EXCEPT !.path_hooks = RemoveFirst(@, finder),
                !.meta_path = RemoveFirst(@, finder),
                !.compiled = @ \cup {[key |-> <<backend, ivy_pack.id>>, pack |-> ivy_pack]}]

\* with_backend setting the backend on the global package
with_backend_global(g, imp, backend, env, id) ==
    IF backend \notin DOMAIN _backend_dict
        THEN [g |-> g, imp |-> Inserted(imp, IvyPathFinder(id)), ret |-> None,
              err |-> "KeyError"]
    ELSE [g |-> Push(Rebind(SetSpecificVars(g, _backend_dict[backend]),
                            _backend_dict[backend]), _backend_dict[backend]),
          imp |-> Compiled(Inserted(imp, IvyPathFinder(id)), IvyPathFinder(id), backend,
                           LocalPackage(_import_module(id), _backend_dict[backend])),
          ret |-> <<backend, id>>, err |-> "ok"]

\* with_backend(backend), lines 643-662: g the globals, imp the import
\* machinery and compiled_backends, id the identity of the objects the call
\* makes.  The call returns the local package, named here by its key.
with_backend(g, imp, backend, env, id) ==
    IF backend \notin DOMAIN _backend_dict
        THEN [g |-> g, imp |-> Inserted(imp, IvyPathFinder(id)), ret |-> None,
              err |-> "KeyError"]
    ELSE IF _backend_dict[backend] \notin env.installed
        THEN [g |-> g, imp |-> Inserted(imp, IvyPathFinder(id)), ret |-> None,
              err |-> "ImportError"]
    ELSE [g |-> g,
          imp |-> Compiled(Inserted(imp, IvyPathFinder(id)), IvyPathFinder(id), backend,
                           LocalPackage(_import_module(id), _backend_dict[backend])),
          ret |-> <<backend, id>>, err |-> "ok"]

-----------------------------------------------------------------------------
(* Inputs of current_backend *)

\* the class module of the native array type of each backend
NativeArrayModule(m) ==
    CASE m = NumpyMod -> "numpy"
      [] m = JaxMod -> "jaxlib.xla_extension"
      [] m = TensorflowMod -> "tensorflow.python.framework.ops"
      [] m = TorchMod -> "torch"
      [] OTHER -> "mindspore.common.tensor"

NativeArray(m) == Obj(NativeArrayModule(m))

\* argument lists: no argument, one native array of a backend, one value of
\* no recognised type, and an ivy.Array after an unrecognised value
ArgLists(env) ==
    {List(<<>>), List(<<Obj("builtins")>>)}
    \cup {List(<<NativeArray(m)>>) : m \in {NumpyMod, JaxMod, TorchMod} \cap env}
    \cup {List(<<Obj("builtins"), IvyArray(NativeArray(m))>>) : m \in {JaxMod} \cap env}

-----------------------------------------------------------------------------
(* The state machine: each call runs to completion *)

Install(g) ==
    /\ backend_stack' = g.stack
    /\ ivy_dict' = g.ivy
    /\ ivy_original_dict' = g.orig
    /\ backend_dicts' = g.mods
    /\ implicit_backend' = g.implicit
    /\ default_device_stack' = g.dev
    /\ RNG' = g.rng
    /\ lock' = g.lock
    /\ objs' = g.objs

\* a completed call; pre is the stack at the start of the step that ended it
Call(op, backend, dynamic, args, ret, err) ==
    [op |-> op, backend |-> backend, dynamic |-> dynamic, args |-> args,
     ret |-> ret, err |-> err, pre |-> backend_stack]

\* no finder of the handler is installed, nothing is compiled (line 19)
InitImports ==
    /\ meta_path = <<>>
    /\ path_hooks = <<>>
    /\ compiled_backends = {}

InitGlobals ==
    /\ backend_stack = <<>>
    /\ ivy_dict = IvyDict0
    /\ ivy_original_dict = IvyDict0
    /\ backend_dicts = [m \in Modules |-> BackendDict0(m)]
    /\ implicit_backend = "numpy"
    /\ default_device_stack = 0
    /\ RNG = FALSE
    /\ lock = 0
    /\ InitImports
    /\ last = Call("none", None, FALSE, List(<<>>), None, "ok")

Idle == [pc |-> "idle", op |-> "none", backend |-> None, dynamic |-> FALSE,
         args |-> List(<<>>), caller |-> "none", temp_stack |-> <<>>,
         popped |-> None, variable_ids |-> {}, numpy_objs |-> <<>>,
         ret |-> None, err |-> "ok", calls |-> 0, pre_stack |-> <<>>,
         race |-> <<>>]

InitThreads == th = [t \in Threads |-> Idle]

\* the version each framework reports
Versions ==
    [m \in Modules |-> IF m = TorchMod THEN Chars("2.0.0+cu117") ELSE Chars("1.4.0")]

\* the environment a call runs in
Env == [installed |-> installed, version |-> f_version]

\* every backend of _backend_dict is installed
Init ==
    /\ InitGlobals
    /\ InitThreads
    /\ objs = <<>>
    /\ installed = Modules
    /\ f_version = Versions

\* some frameworks are not installed (numpy always is: the handler imports
\* it), or torch reports a pre-release version
InitEnv ==
    /\ InitGlobals
    /\ InitThreads
    /\ objs = <<>>
    /\ \/ /\ installed \in {Modules \ {TorchMod}, Modules \ {JaxMod, TorchMod}}
          /\ f_version = Versions
       \/ /\ installed = Modules
          /\ f_version = [Versions EXCEPT ![TorchMod] = Chars("2.0.0rc1")]

\* the objects alive when the handler is first used: two arrays sharing
\* nothing; an array whose payload is also a leaf of a container; two arrays
\* sharing one payload; an array whose payload is also a leaf of a container
\* that does not follow the backend;
\* two arrays of different frameworks
P1 == Payload(<<"p", 1>>, TorchMod, TRUE, 7)
P2 == Payload(<<"p", 2>>, TorchMod, FALSE, 8)
P3 == Payload(<<"p", 3>>, JaxMod, FALSE, 9)

ObjConfigs ==
    { <<Array(TRUE, P1), Array(FALSE, P2)>>,
      <<Array(TRUE, P2), Container(TRUE, <<P2, P1>>)>>,
      <<Array(TRUE, P3), Array(TRUE, P3)>>,
      <<Array(TRUE, P1), Container(FALSE, <<P1, P2>>)>>,
      <<Array(TRUE, P1), Array(TRUE, P3)>> }

\* as Init, with tracked objects
InitDyn ==
    /\ InitGlobals
    /\ InitThreads
    /\ objs \in ObjConfigs
    /\ installed = Modules
    /\ f_version = Versions

\* a call that waits for a lock nobody releases never returns
Running == last.err # "blocked"

SetBackend(backend, dynamic) ==
    /\ Running
    /\ Len(backend_stack) < MaxStack
    /\ LET r == set_backend(G, backend, dynamic, 1, Env)
       IN  /\ Install(r.g)
           /\ last' = Call("set_backend", backend, dynamic, List(<<>>), None, r.err)
    /\ UNCHANGED <<installed, f_version, th, imports>>

UnsetBackend ==
    /\ Running
    /\ LET r == unset_backend(G)
       IN  /\ Install(r.g)
           /\ last' = Call("unset_backend", None, FALSE, List(<<>>), r.ret, "ok")
    /\ UNCHANGED <<installed, f_version, th, imports>>

ClearBackendStack ==
    /\ Running
    /\ Install(clear_backend_stack(G))
    /\ last' = Call("clear_backend_stack", None, FALSE, List(<<>>), None, "ok")
    /\ UNCHANGED <<installed, f_version, th, imports>>

CurrentBackend(args) ==
    /\ Running
    /\ LET r == current_backend(G, args)
       IN  /\ Install(r.g)
           /\ last' = Call("current_backend", None, FALSE, args, r.ret, "ok")
    /\ UNCHANGED <<installed, f_version, th, imports>>

Next ==
    \/ \E backend \in SetNames, dynamic \in BOOLEAN : SetBackend(backend, dynamic)
    \/ UnsetBackend
    \/ ClearBackendStack
    \/ \E args \in ArgLists(installed) : CurrentBackend(args)

Spec == Init /\ [][Next]_vars

SpecEnv == InitEnv /\ [][Next]_vars

\* the calls that matter to tracked objects
NextDyn ==
    \/ \E backend \in DynNames, dynamic \in BOOLEAN : SetBackend(backend, dynamic)
    \/ UnsetBackend

SpecDyn == InitDyn /\ [][NextDyn]_vars

\* get_backend among the calls that switch the backend
GetNames == {"numpy", "jax", "mxnet", None}

GetBackend(backend) ==
    /\ Running
    /\ LET r == get_backend(G, backend, Env)
       IN  /\ Install(r.g)
           /\ last' = Call("get_backend", backend, FALSE, List(<<>>), r.ret, r.err)
    /\ UNCHANGED <<installed, f_version, th, imports>>

NextGet ==
    \/ \E backend \in GetNames \ {None} : SetBackend(backend, FALSE)
    \/ UnsetBackend
    \/ \E backend \in GetNames : GetBackend(backend)

SpecGet == Init /\ [][NextGet]_vars

\* with_backend among the calls that switch the global backend
Imports == [meta_path |-> meta_path, path_hooks |-> path_hooks,
            compiled |-> compiled_backends]

\* the objects made by the calls of with_backend so far
Made == Len(meta_path) + Cardinality(compiled_backends)

WithBackend(backend) ==
    /\ Running
    /\ Made < MaxLocal
    /\ LET r == with_backend(G, Imports, backend, Env, Made + 1)
       IN  /\ Install(r.g)
           /\ meta_path' = r.imp.meta_path
           /\ path_hooks' = r.imp.path_hooks
           /\ compiled_backends' = r.imp.compiled
           /\ last' = Call("with_backend", backend, FALSE, List(<<>>), r.ret, r.err)
    /\ UNCHANGED <<installed, f_version, th>>

NextLocal ==
    \/ \E backend \in {"numpy", "jax"} : SetBackend(backend, FALSE)
    \/ UnsetBackend
    \/ \E backend \in {"numpy", "jax", "mxnet"} : WithBackend(backend)

SpecLocal == Init /\ [][NextLocal]_vars

-----------------------------------------------------------------------------
(* choose_random_backend *)

\* list(_backend_dict.keys()), in insertion order (lines 50-54)
BackendKeys == <<"numpy", "jax", "tensorflow", "torch", "mindspore">>

\* lines 628-636 after the check of lines 621-627 passed: np.random.choice
\* raises ValueError on an empty list and otherwise returns one of its
\* elements, which is never None
Choice(candidates) ==
    IF candidates = <<>> THEN {[ret |-> None, err |-> "ValueError"]}
    ELSE {[ret |-> candidates[i], err |-> "ok"] : i \in DOMAIN candidates}

\* choose_random_backend(excluded), lines 619-636: the ways the call can end
choose_random_backend(excluded) ==
    IF Len(excluded) = 4 THEN {[ret |-> None, err |-> "IvyException"]}
    ELSE Choice(SelectSeq(BackendKeys,
                          LAMBDA f_srt : \A i \in DOMAIN excluded : excluded[i] # f_srt))

\* excluded lists: the sub-lists of the registered names followed by a name
\* that is not registered, and a list naming one backend four times
SubList(names, S) == SelectSeq(names, LAMBDA n : \E i \in S : names[i] = n)
ExcludedInputs ==
    {SubList(BackendKeys \o <<"paddle">>, S) : S \in SUBSET (1..6)}
    \cup {<<"numpy", "numpy", "numpy", "numpy">>}

ChooseRandomBackend(excluded) ==
    /\ Running
    /\ \E r \in choose_random_backend(excluded) :
           last' = Call("choose_random_backend", None, FALSE, List(excluded), r.ret, r.err)
    /\ UNCHANGED <<backend_stack, ivy_dict, ivy_original_dict, backend_dicts,
                   implicit_backend, default_device_stack, RNG, lock, objs,
                   installed, f_version, th, imports>>

NextChoose == \E excluded \in ExcludedInputs : ChooseRandomBackend(excluded)

SpecChoose == Init /\ [][NextChoose]_vars

-----------------------------------------------------------------------------
(* The version resolver on its own: names and versions drawn from sets *)

\* str(n) of a natural number
RECURSIVE Dec(_)
Dec(n) == IF n < 10 THEN <<Digits[n + 1]>> ELSE Dec(n \div 10) \o <<Digits[(n % 10) + 1]>>

\* sep.join(map(str, t)) for a non-empty tuple t of natural numbers
RECURSIVE Join(_, _)
Join(t, sep) ==
    IF Len(t) = 1 THEN Dec(t[1]) ELSE Dec(t[1]) \o <<sep>> \o Join(Tail(t), sep)

\* reported versions: up to MaxParts components, the first 1 or 2, the
\* second any of VerParts, the later ones 0 or 5; two of them also with a
\* local build tag and with a pre-release tag
MaxParts == 3
VerParts == {0, 4, 5, 6, 10}
VerTuples ==
    UNION {{t \in [1..n -> VerParts \cup {1, 2}] :
                /\ t[1] \in {1, 2}
                /\ \A i \in 2..n : t[i] \in VerParts
                /\ \A i \in 3..n : t[i] \in {0, 5}} : n \in 1..MaxParts}
VerTags == {Chars("+cu117"), Chars("rc1")}
VersionInputs ==
    {Join(t, ".") : t \in VerTuples}
    \cup {Join(t, ".") \o tag : t \in {<<2, 0, 0>>, <<1, 5>>}, tag \in VerTags}

\* the version-specific variants of gelu a backend may define: a closed
\* range, a bound and above, a bound and below
BoundTuples == {<<1, 0>>, <<1, 5>>, <<1, 6>>, <<2>>}
Variants ==
    {[kind |-> "to", start |-> a, end |-> b] : a \in BoundTuples, b \in BoundTuples}
    \cup {[kind |-> k, start |-> a, end |-> a] : k \in {"above", "below"}, a \in BoundTuples}

\* the attribute name of a variant
NameOf(variant) ==
    Chars("gelu") \o Chars("_v_") \o Join(variant.start, "p")
        \o ( CASE variant.kind = "to" -> Chars("_to_") \o Join(variant.end, "p")
               [] variant.kind = "above" -> Chars("_and_above")
               [] OTHER -> Chars("_and_below") )

NameInputs == {NameOf(variant) : variant \in Variants}

\* every framework reports the same version, any of VersionInputs
InitVer ==
    /\ InitGlobals
    /\ InitThreads
    /\ objs = <<>>
    /\ installed = Modules
    /\ \E version \in VersionInputs : f_version = [m \in Modules |-> version]

\* fn_name_from_version_specific_fn_name(name, torch.__version__) is called
ResolveName(name) ==
    /\ Running
    /\ last' = Call("fn_name_from_version_specific_fn_name", None, FALSE,
                    List(<<name, f_version[TorchMod]>>),
                    fn_name_from_version_specific_fn_name(name, f_version[TorchMod]).ret,
                    fn_name_from_version_specific_fn_name(name, f_version[TorchMod]).err)
    /\ UNCHANGED <<backend_stack, ivy_dict, ivy_original_dict, backend_dicts,
                   implicit_backend, default_device_stack, RNG, lock, objs,
                   installed, f_version, th, imports>>

NextVer ==
    \/ \E name \in NameInputs : ResolveName(name)
    \/ \E backend \in {"torch", "numpy", "tensorflow"} :
           backend_stack = <<>> /\ SetBackend(backend, FALSE)

SpecVer == InitVer /\ [][NextVer]_vars

-----------------------------------------------------------------------------
(* Backend inference on its own: nested arguments drawn from sets *)

\* the number of arguments of a call
MaxArgs == 2

\* the sequences over S of at most n elements
UpTo(S, n) == UNION {[1..k -> S] : k \in 0..n}

\* values that are no containers: a value of no recognised type, a numpy
\* array, a torch tensor, and an ivy.Array holding a jax array
Leaves == {Obj("builtins"), NativeArray(NumpyMod), NativeArray(TorchMod),
           IvyArray(NativeArray(JaxMod))}

\* one argument: a leaf, or a list, a tuple or a dict of at most two leaves
ArgValues ==
    Leaves \cup {List(s) : s \in UpTo(Leaves, 2)}
           \cup {Tuple(s) : s \in UpTo(Leaves, 2)}
           \cup {Dict(s) : s \in UpTo(Leaves, 2)}

\* list(args) + list(kwargs.values()) of line 243
NestedArgLists == {List(s) : s \in UpTo(ArgValues, MaxArgs)}

\* the arguments of the one call are chosen at the start
InitArgs ==
    /\ InitThreads
    /\ backend_stack = <<>>
    /\ ivy_dict = IvyDict0
    /\ ivy_original_dict = IvyDict0
    /\ backend_dicts = [m \in Modules |-> BackendDict0(m)]
    /\ implicit_backend = "numpy"
    /\ default_device_stack = 0
    /\ RNG = FALSE
    /\ lock = 0
    /\ InitImports
    /\ objs = <<>>
    /\ installed = Modules
    /\ f_version = Versions
    /\ \E args \in NestedArgLists : last = Call("none", None, FALSE, args, None, "ok")

\* line 243 on its own
DetermineBackendFromArgs ==
    /\ last.op = "none"
    /\ last' = Call("_determine_backend_from_args", None, FALSE, last.args,
                    _determine_backend_from_args(last.args), "ok")
    /\ UNCHANGED <<backend_stack, ivy_dict, ivy_original_dict, backend_dicts,
                   implicit_backend, default_device_stack, RNG, lock, objs,
                   installed, f_version, th, imports>>

NextArgs ==
    \/ DetermineBackendFromArgs
    \/ last.op = "none" /\ CurrentBackend(last.args)

SpecArgs == InitArgs /\ [][NextArgs]_vars

-----------------------------------------------------------------------------
(* The calls of several threads, interleaved between statements *)

L(t) == th[t]

Go(t, g, l) ==
    /\ Install(g)
    /\ th' = [th EXCEPT ![t] = l]
    /\ UNCHANGED <<installed, f_version, last, imports>>

\* the call of thread t ends with exception e
Raise(t, g, e) == Go(t, g, [L(t) EXCEPT !.pc = "idle", !.ret = None, !.err = e])

\* the call of thread t returns ret
Return(t, g, ret) == Go(t, g, [L(t) EXCEPT !.pc = "idle", !.ret = ret, !.err = "ok"])

Begin(t, op, backend, dynamic, pc) ==
    [Idle EXCEPT !.pc = pc, !.op = op, !.backend = backend, !.dynamic = dynamic,
                 !.calls = L(t).calls + 1, !.pre_stack = backend_stack]

\* set_backend(backend, dynamic) is called: lines 421-424
CallSetBackend(t, backend, dynamic) ==
    /\ L(t).pc = "idle" /\ L(t).calls < MaxCalls
    /\ Len(backend_stack) < MaxStack
    /\ IF ValidBackend(backend)
           THEN Go(t, G, Begin(t, "set_backend", backend, dynamic, "set_export"))
           ELSE Go(t, G, [Begin(t, "set_backend", backend, dynamic, "idle")
                             EXCEPT !.err = "IvyException"])

\* lines 426-433
SetExport(t) ==
    /\ L(t).pc = "set_export"
    /\ LET e == IF L(t).dynamic THEN convert_from_source_backend_to_numpy(G)
                ELSE [g |-> G, variable_ids |-> {}, numpy_objs |-> <<>>, err |-> "ok"]
       IN  IF e.err # "ok" THEN Raise(t, e.g, e.err)
           ELSE Go(t, e.g, [L(t) EXCEPT !.pc = "set_acquire",
                                        !.variable_ids = e.variable_ids,
                                        !.numpy_objs = e.numpy_objs])

\* line 436
SetAcquire(t) ==
    /\ L(t).pc = "set_acquire"
    /\ lock = 0
    /\ Go(t, [G EXCEPT !.lock = t], [L(t) EXCEPT !.pc = "set_snapshot"])

\* lines 438-439
SetSnapshot(t) ==
    /\ L(t).pc = "set_snapshot"
    /\ Go(t, Snapshot(G), [L(t) EXCEPT !.pc = "set_unwind"])

\* line 442, and the call of line 443
SetUnwind(t) ==
    /\ L(t).pc = "set_unwind"
    /\ IF backend_stack # <<>>
           THEN Go(t, G, [L(t) EXCEPT !.pc = "unset_test", !.caller = "set_backend"])
           ELSE Go(t, G, [L(t) EXCEPT !.pc = "set_import"])

\* unset_backend() is called
CallUnsetBackend(t) ==
    /\ L(t).pc = "idle" /\ L(t).calls < MaxCalls
    /\ Go(t, G, Begin(t, "unset_backend", None, FALSE, "unset_test"))

\* unset_backend returns ret: to set_backend's loop (line 443) or to the caller
UnsetReturn(t, g, ret) ==
    IF L(t).caller = "set_backend"
        THEN Go(t, g, [L(t) EXCEPT !.pc = "set_unwind", !.caller = "none",
                                   !.temp_stack = Append(@, ret)])
        ELSE Return(t, g, ret)

\* line 581
UnsetTest(t) ==
    /\ L(t).pc = "unset_test"
    /\ IF backend_stack # <<>>
           THEN Go(t, G, [L(t) EXCEPT !.pc = "unset_pop"])
           ELSE UnsetReturn(t, G, None)

\* line 582
UnsetPopStep(t) ==
    /\ L(t).pc = "unset_pop"
    /\ IF backend_stack = <<>> THEN Raise(t, G, "IndexError")
       ELSE Go(t, UnsetPop(G), [L(t) EXCEPT !.pc = "unset_vars",
                                             !.popped = Last(backend_stack)])

\* lines 583-586
UnsetVars(t) ==
    /\ L(t).pc = "unset_vars"
    /\ IF L(t).popped = None THEN Raise(t, G, "AttributeError")
       ELSE Go(t, UnsetSpecificVars(G, L(t).popped), [L(t) EXCEPT !.pc = "unset_newtop"])

\* lines 590-595
UnsetNewTopStep(t) ==
    /\ L(t).pc = "unset_newtop"
    /\ IF backend_stack # <<>> /\ Last(backend_stack) = None
           THEN Raise(t, G, "AttributeError")
           ELSE Go(t, UnsetNewTop(G), [L(t) EXCEPT !.pc = "unset_rebind"])

\* lines 596-608
UnsetRebindStep(t) ==
    /\ L(t).pc = "unset_rebind"
    /\ IF backend_stack # <<>> /\ Last(backend_stack) = None
           THEN Raise(t, G, "AttributeError")
           ELSE UnsetReturn(t, UnsetRebind(G), L(t).popped)

\* line 444
SetImport(t) ==
    /\ L(t).pc = "set_import"
    /\ IF _backend_dict[L(t).backend] \in installed
           THEN Go(t, G, [L(t) EXCEPT !.pc = "set_replay"])
           ELSE Raise(t, G, "ImportError")

\* lines 445-446
SetReplay(t) ==
    /\ L(t).pc = "set_replay"
    /\ Go(t, Replay(G, L(t).temp_stack), [L(t) EXCEPT !.pc = "set_vars"])

\* lines 447-450
SetVars(t) ==
    /\ L(t).pc = "set_vars"
    /\ Go(t, SetSpecificVars(G, _backend_dict[L(t).backend]),
          [L(t) EXCEPT !.pc = "set_push"])

\* line 451
SetPush(t) ==
    /\ L(t).pc = "set_push"
    /\ Go(t, Push(G, _backend_dict[L(t).backend]),
          [L(t) EXCEPT !.pc = "set_rebind"])

\* line 453, after the version step ended as v
Rebound(t, module, v) ==
    IF v.err # "ok" THEN Raise(t, v.g, v.err)
    ELSE \E g \in {Rebind(v.g, module)} : Go(t, g, [L(t) EXCEPT !.pc = "set_convert"])

\* lines 452-453
SetRebind(t) ==
    /\ L(t).pc = "set_rebind"
    /\ \E v \in {SetVersion(G, _backend_dict[L(t).backend], Env)} :
           Rebound(t, _backend_dict[L(t).backend], v)

\* lines 455-456
SetConvert(t) ==
    /\ L(t).pc = "set_convert"
    /\ LET c == IF L(t).dynamic
                   THEN convert_from_numpy_to_target_backend(
                            G, L(t).variable_ids, L(t).numpy_objs)
                   ELSE [g |-> G, err |-> "ok"]
       IN  IF c.err # "ok" THEN Raise(t, c.g, c.err)
           ELSE Go(t, c.g, [L(t) EXCEPT !.pc = "set_release"])

\* SetRelease returning with the lock still held
SetReturnHoldingLock(t) ==
    /\ L(t).pc = "set_release"
    /\ Return(t, G, None)

\* line 460
SetRelease(t) ==
    /\ L(t).pc = "set_release"
    /\ Return(t, [G EXCEPT !.lock = 0], None)

\* the set_backend call that another thread is executing, if any: the
\* thread, its call number, the top of the stack when it was called and the
\* module it sets
RacingSet(t) ==
    LET W == {w \in Threads \ {t} :
                 L(w).op = "set_backend" /\ L(w).pc # "idle" /\ L(w).pre_stack # <<>>}
    IN  IF W = {} THEN <<>>
        ELSE LET w == CHOOSE w \in W : TRUE
             IN  <<[thread |-> w, call |-> L(w).calls, size |-> Len(L(w).pre_stack),
                    before |-> Last(L(w).pre_stack),
                    after |-> _backend_dict[L(w).backend]]>>

\* current_backend() is called: line 235
CallCurrentBackend(t) ==
    /\ L(t).pc = "idle" /\ L(t).calls < MaxCalls
    /\ Go(t, G, [Begin(t, "current_backend", None, FALSE,
                       IF backend_stack # <<>> THEN "cb_read" ELSE "cb_infer")
                    EXCEPT !.race = RacingSet(t)])

\* the race noted at line 235 is still the same call
SameRace(t) == IF RacingSet(t) = L(t).race THEN L(t).race ELSE <<>>

\* lines 236-239
CbRead(t) ==
    /\ L(t).pc = "cb_read"
    /\ IF backend_stack = <<>> THEN Raise(t, G, "IndexError")
       ELSE Go(t, G, [L(t) EXCEPT !.pc = "idle", !.ret = Last(backend_stack),
                                  !.err = "ok", !.race = SameRace(t)])

\* lines 243-249
CbInfer(t) ==
    /\ L(t).pc = "cb_infer"
    /\ LET r == current_backend([G EXCEPT !.stack = <<>>], L(t).args)
       IN  Go(t, [r.g EXCEPT !.stack = backend_stack],
              [L(t) EXCEPT !.pc = "idle", !.ret = r.ret, !.err = "ok",
                           !.race = SameRace(t)])

ThreadStep(t) ==
    \/ \E backend \in ConcNames : CallSetBackend(t, backend, FALSE)
    \/ CallUnsetBackend(t)
    \/ CallCurrentBackend(t)
    \/ SetExport(t)
    \/ SetAcquire(t)
    \/ SetSnapshot(t)
    \/ SetUnwind(t)
    \/ UnsetTest(t)
    \/ UnsetPopStep(t)
    \/ UnsetVars(t)
    \/ UnsetNewTopStep(t)
    \/ UnsetRebindStep(t)
    \/ SetImport(t)
    \/ SetReplay(t)
    \/ SetVars(t)
    \/ SetPush(t)
    \/ SetRebind(t)
    \/ SetConvert(t)
    \/ SetRelease(t)
    \/ CbRead(t)
    \/ CbInfer(t)

NextConc == \E t \in Threads : ThreadStep(t)

\* the globals the threads start from: those left by the calls of Setup
RECURSIVE After(_, _)
After(g, calls) ==
    IF calls = <<>> THEN g
    ELSE After(set_backend(g, Head(calls), FALSE, 1,
                           [installed |-> Modules, version |-> Versions]).g,
               Tail(calls))

Setups == {<<>>, <<"numpy">>, <<"torch", "numpy">>}

InitConc ==
    /\ \E calls \in Setups :
          LET g == After([stack |-> <<>>, ivy |-> IvyDict0, orig |-> IvyDict0,
                          mods |-> [m \in Modules |-> BackendDict0(m)],
                          implicit |-> "numpy", dev |-> 0, rng |-> FALSE,
                          lock |-> 0, objs |-> <<>>], calls)
          IN  /\ backend_stack = g.stack
              /\ ivy_dict = g.ivy
              /\ ivy_original_dict = g.orig
              /\ backend_dicts = g.mods
              /\ implicit_backend = g.implicit
              /\ default_device_stack = g.dev
              /\ RNG = g.rng
              /\ lock = g.lock
              /\ objs = g.objs
    /\ InitThreads
    /\ InitImports
    /\ installed = Modules
    /\ f_version = Versions
    /\ last = Call("none", None, FALSE, List(<<>>), None, "ok")

SpecConc == InitConc /\ [][NextConc]_vars

\* the steps inside a call: a thread that has started a call and can take
\* its next step is eventually scheduled (a thread waiting at line 436 can
\* take its step once the lock is free)
Continue(t) ==
    \/ SetExport(t)
    \/ SetAcquire(t)
    \/ SetSnapshot(t)
    \/ SetUnwind(t)
    \/ UnsetTest(t)
    \/ UnsetPopStep(t)
    \/ UnsetVars(t)
    \/ UnsetNewTopStep(t)
    \/ UnsetRebindStep(t)
    \/ SetImport(t)
    \/ SetReplay(t)
    \/ SetVars(t)
    \/ SetPush(t)
    \/ SetRebind(t)
    \/ SetConvert(t)
    \/ SetRelease(t)
    \/ CbRead(t)
    \/ CbInfer(t)

SpecConcFair == SpecConc /\ \A t \in Threads : WF_vars(Continue(t))

-----------------------------------------------------------------------------
(* Properties *)

Top == Last(backend_stack)
SetDone == last.op = "set_backend" /\ last.err = "ok"
NoMatch(args) == _determine_backend_from_args(args) = None

\* C1: the stack is last-in first-out.  A successful set_backend(n) turns the
\* stack s into s followed by n's module, and unset_backend on a non-empty
\* stack returns its last entry and removes exactly that entry, so k pops
\* after pushing n1..nk return nk..n1 and leave the stack empty; on the empty
\* stack unset_backend returns None.
C1_StackLIFO ==
    [][/\ (last'.op = "set_backend" /\ last'.err = "ok")
            => backend_stack' = Append(backend_stack, _backend_dict[last'.backend])
       /\ (last'.op = "unset_backend" /\ backend_stack # <<>>)
            => /\ last'.ret = Last(backend_stack)
               /\ backend_stack' = Front(backend_stack)
       /\ (last'.op = "unset_backend" /\ backend_stack = <<>>)
            => /\ last'.ret = None
               /\ backend_stack' = <<>>]_vars

\* three entries were pushed and the top one has been popped
C1_Witness ==
    /\ last.op = "unset_backend"
    /\ last.ret = JaxMod
    /\ backend_stack = <<TorchMod, NumpyMod>>

\* C2: the namespace follows the top of the stack.  With a backend on top,
\* every snapshot name that backend defines itself is bound to the backend's
\* own function; with an empty stack every snapshot name is bound to the
\* library's original function.
C2_NamespaceFollowsTop ==
    /\ backend_stack # <<>> =>
          \A k \in NativeAttrs(Top) \cap DOMAIN ivy_original_dict :
              Has(ivy_dict, k) /\ ivy_dict[k].owner = Top /\ ivy_dict[k].fn = k
    /\ backend_stack = <<>> =>
          \A k \in DOMAIN ivy_original_dict :
              Has(ivy_dict, k) /\ ivy_dict[k] = IvyDict0[k]

\* numpy was set, jax was set on it and unset again: add is numpy's again
C2_Witness ==
    /\ last.op = "unset_backend"
    /\ last.ret = JaxMod
    /\ backend_stack = <<NumpyMod>>
    /\ ivy_dict["add"].owner = NumpyMod

\* C3: pop undoes push.  In every state and for every registered backend X,
\* set_backend(X) followed by unset_backend() leaves ivy.__dict__ with the
\* keys and the bindings it had before.
C3_PopUndoesPush ==
    \A X \in SetNames :
        LET r == set_backend(G, X, FALSE, 1, Env)
        IN  r.err = "ok" => unset_backend(r.g).g.ivy = ivy_dict

\* C4: after a successful set_backend every name of the snapshot is bound in
\* the public namespace.
C4_NoNameUnbound ==
    SetDone => \A k \in DOMAIN ivy_original_dict : Has(ivy_dict, k)

\* C4 (amended): a successful set_backend(X) leaves every snapshot name
\* bound to the wrapped function that X's module holds under that name (X's
\* own, a version-specific variant, or the library's fallback, marked
\* compositional when this call copied it in), except the names that X lists
\* as invalid dtypes and does not define: those are removed from the public
\* namespace.
C4_BoundUnlessInvalidDtype ==
    [][(last'.op = "set_backend" /\ last'.err = "ok") =>
          LET m == _backend_dict[last'.backend]
          IN  \A k \in DOMAIN ivy_original_dict' :
                  IF ~Has(backend_dicts'[m], k)
                      THEN k \in invalid_dtypes(m) /\ ~Has(ivy_dict', k)
                  ELSE /\ Has(ivy_dict', k)
                       /\ ivy_dict'[k].wrapped
                       /\ ivy_dict'[k].owner = backend_dicts'[m][k].owner
                       /\ ivy_dict'[k].fn = backend_dicts'[m][k].fn
                       /\ (k \in NativeAttrs(m) => ivy_dict'[k].owner = m)
                       /\ (~Has(backend_dicts[m], k) /\ ivy_dict'[k].owner = "ivy"
                              => ivy_dict'[k].comp)]_vars

\* numpy is set: gelu is the compositional fallback and bfloat16 is removed
C4_Witness ==
    /\ SetDone
    /\ Top = NumpyMod
    /\ ivy_dict["gelu"].comp
    /\ ~Has(ivy_dict, "bfloat16")

\* C5: inference precedence.  With a backend on the stack current_backend
\* returns the top of the stack whatever its arguments; with the empty stack
\* and one native array of backend B as argument it returns B.
C5_InferencePrecedence ==
    last.op = "current_backend" =>
        /\ backend_stack # <<>> => last.ret = Top
        /\ backend_stack = <<>> =>
              \A m \in Modules : last.args = List(<<NativeArray(m)>>) => last.ret = m

\* a torch array was passed while jax is on top of the stack
C5_Witness ==
    /\ last.op = "current_backend"
    /\ last.args = List(<<NativeArray(TorchMod)>>)
    /\ backend_stack # <<>>
    /\ last.ret = JaxMod

\* C6: with the empty stack, current_backend without a recognised argument
\* returns the numpy backend.
C6_ImplicitDefaultNumpy ==
    (last.op = "current_backend" /\ backend_stack = <<>> /\ NoMatch(last.args))
        => last.ret = NumpyMod

\* C6 (amended): with the empty stack, current_backend without a recognised
\* argument returns the backend named by implicit_backend, which is numpy
\* until a current_backend call on the empty stack infers a backend from its
\* arguments and from then on names the backend inferred last.
C6_ImplicitDefault ==
    /\ implicit_backend = "numpy"
    /\ [][/\ (last'.op = "current_backend" /\ backend_stack = <<>> /\ NoMatch(last'.args))
               => /\ last'.ret = _backend_dict[implicit_backend]
                  /\ implicit_backend' = implicit_backend
          /\ implicit_backend' # implicit_backend
               => /\ last'.op = "current_backend"
                  /\ backend_stack = <<>>
                  /\ ~NoMatch(last'.args)
                  /\ _backend_dict[implicit_backend'] =
                         _determine_backend_from_args(last'.args)]_vars

\* no argument, empty stack, and the answer is torch
C6_Witness ==
    /\ last.op = "current_backend"
    /\ last.args = List(<<>>)
    /\ backend_stack = <<>>
    /\ last.ret = TorchMod

\* C7: set_backend with a name that is not registered raises and changes
\* nothing: not the stack, the namespace, the snapshot, the backend modules,
\* the tracked objects or the lock, with dynamic set or not.
C7_InvalidNameChangesNothing ==
    [][(last'.op = "set_backend" /\ ~ValidBackend(last'.backend)) =>
          /\ last'.err = "IvyException"
          /\ UNCHANGED <<backend_stack, ivy_dict, ivy_original_dict, backend_dicts,
                         implicit_backend, default_device_stack, RNG, objs>>
          /\ lock' = 0]_vars

\* set_backend("mxnet", dynamic=True) was called with a backend set and a
\* tracked torch array that opted in
C7_Witness ==
    /\ last.op = "set_backend"
    /\ last.backend = "mxnet"
    /\ last.dynamic
    /\ last.err = "IvyException"
    /\ backend_stack # <<>>
    /\ \E o \in DOMAIN objs :
          objs[o].dynamic_backend /\ objs[o].leaves[1].fw = Top /\ Top # NumpyMod

\* C8: whenever set_backend has ended, also with an exception, the
\* backend_setter lock is free.
C8_LockReleasedOnEveryExit ==
    last.op = "set_backend" => lock = 0

\* thread t is between the first and the last statement that reads or
\* writes the stack and the namespace in set_backend (lines 438-460) or in
\* unset_backend (lines 582-605)
InCritical(t) ==
    \/ L(t).op = "set_backend" /\ L(t).pc \notin {"idle", "set_export", "set_acquire"}
    \/ L(t).op = "unset_backend" /\ L(t).pc \notin {"idle", "unset_test"}

\* C9: the stack and namespace mutations of concurrent set_backend and
\* unset_backend calls are mutually exclusive.
C9_MutualExclusion ==
    \A t1 \in Threads, t2 \in Threads : t1 # t2 => ~(InCritical(t1) /\ InCritical(t2))

\* C10: a current_backend() call that ran while another thread executed one
\* set_backend(C), called with B on top of a stack of at least two entries,
\* returned B or C.
C10_NoTornRead ==
    \A t \in Threads :
        (/\ L(t).op = "current_backend"
         /\ L(t).pc = "idle"
         /\ L(t).race # <<>>
         /\ L(t).race[1].size >= 2)
            => /\ L(t).err = "ok"
               /\ L(t).ret \in {L(t).race[1].before, L(t).race[1].after}


\* C11: unset_backend on an empty stack returns None and leaves the stack,
\* the public namespace, the snapshot, the backend modules and the
\* backend-specific globals (default device, RNG attribute) as they were.
C11_UnsetOnEmptyChangesNothing ==
    [][(last'.op = "unset_backend" /\ backend_stack = <<>>) =>
          /\ last'.ret = None
          /\ UNCHANGED <<backend_stack, ivy_dict, ivy_original_dict, backend_dicts,
                         implicit_backend, default_device_stack, RNG, lock, objs>>]_vars

\* unset_backend was called on the empty stack after a backend had been
\* inferred, set and unset
C11_Witness ==
    /\ last.op = "unset_backend"
    /\ last.ret = None
    /\ backend_stack = <<>>
    /\ implicit_backend = "jax"
    /\ Has(backend_dicts[NumpyMod], "gelu")

\* C12: clear_backend_stack ends (every unset_backend on a non-empty stack
\* makes the stack one entry shorter), leaves the stack empty and every
\* snapshot name bound to its original function, also after a set_backend
\* that failed; on an empty stack it changes nothing.
C12_ClearResets ==
    [][/\ backend_stack # <<>> =>
            Len(unset_backend(G).g.stack) = Len(backend_stack) - 1
       /\ last'.op = "clear_backend_stack" =>
            /\ backend_stack' = <<>>
            /\ ivy_dict' = ivy_original_dict'
            /\ ivy_original_dict' = ivy_original_dict
            /\ backend_stack = <<>> =>
                  UNCHANGED <<ivy_dict, backend_dicts, implicit_backend,
                              default_device_stack, RNG, lock, objs>>]_vars

\* clear_backend_stack was called with two entries on the stack, the top one
\* left there by a set_backend that failed in the version step
C12_Witness ==
    /\ last.op = "clear_backend_stack"
    /\ last.pre = <<NumpyMod, TorchMod>>
    /\ backend_stack = <<>>
    /\ lock # 0
    /\ ivy_dict = ivy_original_dict

\* C13: idempotent rebind.  In every state and for every backend X,
\* set_backend(X) followed at once by set_backend(X) leaves the public
\* namespace as the first call left it: the same names bound, each to the
\* same function with the same provenance.
C13_IdempotentRebind ==
    Running =>
        \A X \in SetNames :
            LET first == set_backend(G, X, FALSE, 1, Env)
                second == set_backend(first.g, X, FALSE, 1, Env)
            IN  (first.err = "ok" /\ second.err = "ok") => second.g.ivy = first.g.ivy

\* a set_backend(B, dynamic=True) call has just completed
DynSetDone == last.op = "set_backend" /\ last.err = "ok" /\ last.dynamic

\* every payload of obj is a native array of backend module m
HoldsNative(obj, m) == \A i \in DOMAIN obj.leaves : obj.leaves[i].fw = m

\* C14: no tracked object is dropped.  After a successful
\* set_backend(B, dynamic=True) every object that follows the backend is
\* the object it was and holds B-native data only.
C14_NoTrackedObjectDropped ==
    [][DynSetDone' =>
          \A o \in DOMAIN objs :
              objs[o].dynamic_backend =>
                  /\ objs'[o].kind = objs[o].kind
                  /\ objs'[o].dynamic_backend
                  /\ Len(objs'[o].leaves) = Len(objs[o].leaves)
                  /\ HoldsNative(objs'[o], _backend_dict[last'.backend])]_vars

\* C15: container/leaf de-duplication.  When an array and a container that
\* both follow the backend reference one payload, after a successful
\* set_backend(B, dynamic=True) both hold B-native data only.
C15_SharedPayloadConverted ==
    [][DynSetDone' =>
          \A a \in DOMAIN objs, c \in DOMAIN objs :
              ( /\ objs[a].kind = "Array" /\ objs[a].dynamic_backend
                /\ objs[c].kind = "Container" /\ objs[c].dynamic_backend
                /\ objs[a].leaves[1].id \in LeafIds(objs[c]) ) =>
                  /\ HoldsNative(objs'[a], _backend_dict[last'.backend])
                  /\ HoldsNative(objs'[c], _backend_dict[last'.backend])]_vars

\* C16: variable-ness is preserved.  After a successful
\* set_backend("torch", dynamic=True) every payload of an object that follows
\* the backend is a variable exactly when it was one before (a torch
\* variable, or the variable made from one).
C16_VariablenessPreserved ==
    [][(DynSetDone' /\ last'.backend = "torch") =>
          \A o \in DOMAIN objs :
              objs[o].dynamic_backend =>
                  \A i \in DOMAIN objs[o].leaves :
                      i \in DOMAIN objs'[o].leaves
                      /\ objs'[o].leaves[i].var = objs[o].leaves[i].var]_vars

C18_ConversionOptIn ==
    [][last'.op = "set_backend" =>
          /\ ~last'.dynamic => objs' = objs
          /\ DOMAIN objs' = DOMAIN objs
          /\ \A o \in DOMAIN objs : ~objs[o].dynamic_backend => objs'[o] = objs[o]]_vars

\* set_backend("numpy", dynamic=True) converted the first array and left the
\* second, which does not follow the backend, with its torch payload
C18_Witness ==
    /\ DynSetDone
    /\ last.backend = "numpy"
    /\ objs[1].leaves[1].fw = NumpyMod
    /\ objs[2] = Array(FALSE, P2)

\* fn_name_from_version_specific_fn_name has just been applied; its arguments
ResolveDone == last.op = "fn_name_from_version_specific_fn_name"
ResolvedName == last.args.items[1]
ResolvedVersion == last.args.items[2]

\* the function selects the name for the version
Selected(name, version) ==
    /\ fn_name_from_version_specific_fn_name(name, version).err = "ok"
    /\ fn_name_from_version_specific_fn_name(name, version).ret # NoName

\* C19: version resolution.  The torch backend defines gelu_v_1p0_to_1p5 and
\* gelu_v_1p6_and_above: set with a reported version 1.4.0 it binds gelu to
\* the first, with 2.0.0 to the second; and whenever the resolver selects a
\* variant for a version it selects no variant of a disjoint range for it.
C19_VersionResolution ==
    /\ (SetDone /\ last.backend = "torch" /\ f_version[TorchMod] = Chars("1.4.0")) =>
          /\ backend_dicts[TorchMod]["gelu"].fn = "gelu_v_1p0_to_1p5"
          /\ ivy_dict["gelu"].fn = "gelu_v_1p0_to_1p5"
    /\ (SetDone /\ last.backend = "torch" /\ f_version[TorchMod] = Chars("2.0.0")) =>
          /\ backend_dicts[TorchMod]["gelu"].fn = "gelu_v_1p6_and_above"
          /\ ivy_dict["gelu"].fn = "gelu_v_1p6_and_above"
    /\ (ResolveDone /\ last.err = "ok" /\ last.ret # NoName) =>
          LET \* a <= b for versions as numbers: a missing component is 0
              LE(a, b) ==
                  TupleLE([i \in 1..MaxParts |-> IF i <= Len(a) THEN a[i] ELSE 0],
                          [i \in 1..MaxParts |-> IF i <= Len(b) THEN b[i] ELSE 0])
              \* every version of the range of v1 is below every one of v2's
              Below(v1, v2) ==
                  /\ v1.kind # "above"
                  /\ v2.kind # "below"
                  /\ ~LE(v2.start, v1.end)
          IN  \A v1 \in Variants :
                  NameOf(v1) = ResolvedName =>
                      \A v2 \in Variants :
                          (Below(v1, v2) \/ Below(v2, v1)) =>
                              ~Selected(NameOf(v2), ResolvedVersion)

\* torch reporting 1.4.0 was set and gelu is the variant for 1.0 to 1.5
C19_Witness ==
    /\ SetDone
    /\ last.backend = "torch"
    /\ f_version[TorchMod] = Chars("1.4.0")
    /\ ivy_dict["gelu"].owner = TorchMod
    /\ ivy_dict["gelu"].fn = "gelu_v_1p0_to_1p5"
    /\ ivy_dict["gelu"].name = "gelu"

\* C20: inclusive bounds.  For a well-formed reported version t (with or
\* without a local build tag), a variant named for a closed range or for a
\* bound and below is selected whenever t is in its range, bounds included,
\* a missing component counting as 0.
C20_InclusiveBounds ==
    LET \* a <= b with every component present, a missing one being 0
        Padded(a, b) ==
            TupleLE([i \in 1..MaxParts |-> IF i <= Len(a) THEN a[i] ELSE 0],
                    [i \in 1..MaxParts |-> IF i <= Len(b) THEN b[i] ELSE 0])
    IN  ResolveDone =>
            \A variant \in Variants, t \in VerTuples :
                ( /\ variant.kind \in {"to", "below"}
                  /\ NameOf(variant) = ResolvedName
                  /\ ResolvedVersion \in {Join(t, "."), Join(t, ".") \o Chars("+cu117")}
                  /\ IF variant.kind = "to"
                        THEN Padded(variant.start, t) /\ Padded(t, variant.end)
                        ELSE Padded(t, variant.start) ) =>
                    /\ last.err = "ok"
                    /\ last.ret = Chars("gelu")

\* C21: a malformed version fails fast.  When the framework of a registered
\* backend reports a version that does not parse into integers, set_backend
\* for that backend ends with the parsing error, whether or not the backend
\* module defines version-specific names.
C21_MalformedVersionFailsFast ==
    ( /\ last.op = "set_backend"
      /\ ValidBackend(last.backend)
      /\ VersionTuple(f_version[_backend_dict[last.backend]],
                      Find(f_version[_backend_dict[last.backend]], Chars("+"))) = BadTuple ) =>
        last.err = "ValueError"

GetDone == last.op = "get_backend" /\ last.err = "ok"

\* C22: get_backend is read-only.  A call of get_backend, with a name or
\* without, leaves the backend stack and every binding of the public
\* namespace as they were.
C22_GetBackendReadOnly ==
    [][last'.op = "get_backend" =>
          /\ backend_stack' = backend_stack
          /\ ivy_dict' = ivy_dict]_vars

\* get_backend("numpy") returned numpy's module, filled with the fallbacks,
\* while jax is on the stack
C22_Witness ==
    /\ GetDone
    /\ last.backend = "numpy"
    /\ last.ret = NumpyMod
    /\ backend_stack = <<JaxMod>>
    /\ Has(backend_dicts[NumpyMod], "gelu")
    /\ ivy_dict["gelu"].owner = JaxMod

\* C23: get_backend() without a name returns a backend module in every
\* state: the top of the stack when there is one, and otherwise the module
\* current_backend() resolves to.
C23_GetBackendReturnsDescriptor ==
    (last.op = "get_backend" /\ last.backend = None) =>
        /\ last.err = "ok"
        /\ last.ret = IF last.pre # <<>> THEN Last(last.pre)
                      ELSE _backend_dict[implicit_backend]

\* the list passed to the choose_random_backend call that just ended
Excluded == {last.args.items[i] : i \in DOMAIN last.args.items}

\* C24: choose_random_backend(excluded) succeeds whenever a registered
\* backend name is not in excluded, and the name it returns is a registered
\* name that is not in excluded.
C24_ChoosesWhenOneRemains ==
    last.op = "choose_random_backend" =>
        /\ (DOMAIN _backend_dict \ Excluded # {}) => last.err = "ok"
        /\ last.err = "ok" => last.ret \in DOMAIN _backend_dict \ Excluded

\* C25: choose_random_backend(excluded) ends with its "all backends are
\* excluded" error exactly when every registered backend name is in
\* excluded.
C25_FailsExactlyWhenAllExcluded ==
    last.op = "choose_random_backend" =>
        (last.err = "IvyException" <=> DOMAIN _backend_dict \subseteq Excluded)

\* C26: with_backend(name) leaves the global backend stack and the bindings
\* of the global namespace as they were, and when it returns sys.meta_path
\* and the import path hooks are as before the call: the finder it inserted
\* is in neither.
C26_WithBackendIsolated ==
    [][last'.op = "with_backend" =>
          /\ backend_stack' = backend_stack
          /\ ivy_dict' = ivy_dict
          /\ last'.err = "ok" =>
                /\ meta_path' = meta_path
                /\ path_hooks' = path_hooks
                /\ \A i \in DOMAIN meta_path' : meta_path'[i].id # last'.ret[2]
                /\ \A i \in DOMAIN path_hooks' : path_hooks'[i].id # last'.ret[2]]_vars

\* with_backend("jax") returned a package bound to jax while the global
\* namespace is bound to numpy
C26_Witness ==
    /\ last.op = "with_backend"
    /\ last.err = "ok"
    /\ last.backend = "jax"
    /\ backend_stack = <<NumpyMod>>
    /\ ivy_dict["gelu"].owner = "ivy"
    /\ meta_path = <<>>
    /\ path_hooks = <<>>
    /\ \E c \in compiled_backends :
          /\ c.key = last.ret
          /\ c.pack.backend_stack = <<JaxMod>>
          /\ c.pack.dict["gelu"].owner = JaxMod

\* C27: unwind-and-replay changes no existing entry.  After a successful
\* set_backend(X) the stack is one longer than before the call, every entry
\* that was on it is at its old position, and X's module is on top; after
\* unset_backend on a non-empty stack only the top entry is gone.
C27_ReplayKeepsEntries ==
    /\ SetDone =>
          /\ Len(backend_stack) = Len(last.pre) + 1
          /\ \A i \in DOMAIN last.pre : backend_stack[i] = last.pre[i]
          /\ Top = _backend_dict[last.backend]
    /\ (last.op = "unset_backend" /\ last.pre # <<>>) =>
          /\ Len(backend_stack) = Len(last.pre) - 1
          /\ \A i \in DOMAIN backend_stack : backend_stack[i] = last.pre[i]

\* set_backend("numpy") succeeded on the stack jax, numpy
C27_Witness ==
    /\ SetDone
    /\ last.backend = "numpy"
    /\ last.pre = <<JaxMod, NumpyMod>>
    /\ backend_stack = <<JaxMod, NumpyMod, NumpyMod>>

\* C28: backend-specific global state follows the top of the stack.  After
\* any completed calls the default device stack holds exactly one
\* registration when numpy is on top and none otherwise, and the global
\* attribute RNG exists exactly when jax is on top.
C28_GlobalStateMatchesTop ==
    /\ default_device_stack =
           IF backend_stack # <<>> /\ Top = NumpyMod THEN 1 ELSE 0
    /\ RNG <=> (backend_stack # <<>> /\ Top = JaxMod)

\* unset_backend removed torch and uncovered numpy, whose device is registered
C28_Witness ==
    /\ last.op = "unset_backend"
    /\ last.ret = TorchMod
    /\ backend_stack = <<JaxMod, NumpyMod>>
    /\ default_device_stack = 1
    /\ ~RNG

\* C29: compositional provenance does not depend on history.  After a
\* successful set_backend(X), a name of the namespace is marked compositional
\* exactly when the function bound to it is the library's own and not one
\* that X's module defines.
C29_CompositionalIffNotNative ==
    SetDone =>
        \A k \in DOMAIN ivy_dict \cap DOMAIN ivy_original_dict :
            ivy_dict[k].comp <=> ivy_dict[k].owner = "ivy"

\* C30: get_backend does not influence later switches.  In every state and
\* for every registered and installed backend X, the namespace that
\* set_backend(X) produces is the same as the one it produces after
\* get_backend(X).
C30_GetBackendNoInfluence ==
    \A backend \in DOMAIN _backend_dict :
        (lock = 0 /\ _backend_dict[backend] \in installed) =>
            set_backend(get_backend(G, backend, Env).g, backend, FALSE, 1, Env).g.ivy
                = set_backend(G, backend, FALSE, 1, Env).g.ivy

\* C31: snapshot integrity.  In every reachable state the Original Namespace
\* Snapshot maps every original name to the implementation the library
\* itself defines, never to a binding installed for a backend.
C31_SnapshotIsOriginal ==
    /\ DOMAIN ivy_original_dict = OriginalNames
    /\ \A k \in OriginalNames : ivy_original_dict[k] = IvyDict0[k]

\* C32: stack entries are always backends.  In every reachable state every
\* entry of the backend stack is a backend module, and no call has ended
\* with the IndexError of a pop from the empty stack.
C32_StackEntriesAreBackends ==
    /\ \A i \in DOMAIN backend_stack : backend_stack[i] \in Modules
    /\ \A t \in Threads :
          th[t].op \in {"set_backend", "unset_backend"} => th[t].err # "IndexError"

\* C33: no self-deadlock, and progress.  In a behaviour in which no call
\* fails, every set_backend call that a thread has started, on an empty or
\* a non-empty stack, eventually returns, and the thread does not hold the
\* lock then.
C33_SetBackendCompletes ==
    ([](\A u \in Threads : th[u].err = "ok")) =>
        \A t \in Threads :
            (th[t].op = "set_backend" /\ th[t].pc # "idle")
                ~> (th[t].pc = "idle" /\ th[t].err = "ok" /\ lock # t)

\* both threads have completed a set_backend call issued on a non-empty stack
C33_Witness ==
    /\ \A t \in Threads :
          /\ th[t].op = "set_backend"
          /\ th[t].pc = "idle"
          /\ th[t].err = "ok"
          /\ th[t].pre_stack # <<>>
    /\ lock = 0
    /\ Len(backend_stack) = 3

\* C34: when the export phase of set_backend(B, dynamic=True) fails on some
\* tracked object, the backend stack and the public namespace are as before
\* the call and the lock is not held, the objects exported before the failing
\* one hold numpy data with their values, and the failing object and the ones
\* after it are as they were.
C34_ExportFailureIsPartial ==
    [][(/\ last'.op = "set_backend"
        /\ last'.dynamic
        /\ ValidBackend(last'.backend)
        /\ convert_from_source_backend_to_numpy(G).err # "ok")
       => LET todo == SelectSeq(new_objs(objs), LAMBDA o : objs[o].dynamic_backend)
              failing == CHOOSE k \in DOMAIN todo :
                             /\ \E i \in DOMAIN objs[todo[k]].leaves :
                                   ~Recognised(Converter(G, objs[todo[k]].leaves[i]),
                                               objs[todo[k]].leaves[i])
                             /\ \A j \in 1..(k - 1) :
                                   \A i \in DOMAIN objs[todo[j]].leaves :
                                       Recognised(Converter(G, objs[todo[j]].leaves[i]),
                                                  objs[todo[j]].leaves[i])
          IN  /\ last'.err = "ConversionError"
              /\ backend_stack' = backend_stack
              /\ ivy_dict' = ivy_dict
              /\ lock' = 0
              /\ \A k \in 1..(failing - 1) :
                    /\ DOMAIN objs'[todo[k]].leaves = DOMAIN objs[todo[k]].leaves
                    /\ \A i \in DOMAIN objs[todo[k]].leaves :
                          /\ objs'[todo[k]].leaves[i].fw = NumpyMod
                          /\ objs'[todo[k]].leaves[i].val = objs[todo[k]].leaves[i].val
              /\ \A o \in DOMAIN objs :
                    (\A k \in 1..(failing - 1) : todo[k] # o) => objs'[o] = objs[o]]_vars

\* set_backend("numpy", dynamic=True) failed on the jax array after the torch
\* array was exported
C34_Witness ==
    /\ last.op = "set_backend" /\ last.dynamic /\ last.err = "ConversionError"
    /\ backend_stack = last.pre
    /\ backend_stack # <<>>
    /\ lock = 0
    /\ Len(objs) = 2
    /\ objs[1].leaves[1].fw = NumpyMod
    /\ objs[2].leaves[1].fw = JaxMod

\* C35: after a successful set_backend(B, dynamic=True), the objects the
\* export phase returned are listed once each, each of them holds payloads of
\* the backend now on top of the stack, every payload is a variable exactly
\* when the object's identity is in variable_ids, the object keeps its kind,
\* its leaf positions and its values, and no other object is touched.
C35_ImportProcessesExported ==
    [][(DynSetDone' /\ Running)
       => LET e == convert_from_source_backend_to_numpy(G)
              exported == {e.numpy_objs[k] : k \in DOMAIN e.numpy_objs}
          IN  /\ \A j, k \in DOMAIN e.numpy_objs :
                    e.numpy_objs[j] = e.numpy_objs[k] => j = k
              /\ DOMAIN objs' = DOMAIN objs
              /\ \A o \in exported :
                    /\ objs'[o].kind = objs[o].kind
                    /\ DOMAIN objs'[o].leaves = DOMAIN objs[o].leaves
                    /\ \A i \in DOMAIN objs[o].leaves :
                          /\ objs'[o].leaves[i].fw = Last(backend_stack')
                          /\ objs'[o].leaves[i].var = (o \in e.variable_ids)
                          /\ objs'[o].leaves[i].val = objs[o].leaves[i].val
              /\ \A o \in DOMAIN objs \ exported : objs'[o] = objs[o]]_vars

\* set_backend("torch", dynamic=True) on an empty stack: the torch variable
\* is a torch variable again, the jax array a plain torch tensor
C35_Witness ==
    /\ DynSetDone
    /\ last.pre = <<>>
    /\ backend_stack = <<TorchMod>>
    /\ Len(objs) = 2
    /\ objs[1].leaves[1] = Payload(OwnId(1, 1), TorchMod, TRUE, P1.val)
    /\ objs[2].leaves[1] = Payload(OwnId(2, 1), TorchMod, FALSE, P3.val)

\* C36: _determine_backend_from_args returns the backend of the first
\* recognised element in depth-first traversal order (dict values and the
\* elements of lists and tuples in iteration order, an ivy.Array standing for
\* its payload), and None when no element is recognised; current_backend on
\* an empty stack returns that backend when there is one.
C36_FirstMatchInTraversalOrder ==
    LET RECURSIVE Flat(_)
        RECURSIVE FlatAll(_)
        FlatAll(items) == IF items = <<>> THEN <<>>
                          ELSE Flat(Head(items)) \o FlatAll(Tail(items))
        Flat(v) == IF v.kind \in {"list", "tuple", "dict"} THEN FlatAll(v.items)
                   ELSE IF v.kind = "ivy.Array" THEN <<v.items[1]>>
                   ELSE <<v>>
        elems == Flat(last.args)
        known == {k \in DOMAIN elems : elems[k].module \in DOMAIN _array_types}
        first == CHOOSE k \in known : \A j \in known : k <= j
        expected == IF known = {} THEN None ELSE _array_types[elems[first].module]
    IN  /\ last.op = "_determine_backend_from_args" => last.ret = expected
        /\ (last.op = "current_backend" /\ last.pre = <<>> /\ expected # None) =>
               last.ret = expected

\* the jax array inside an ivy.Array, second in a list, comes before the
\* numpy array that is the second argument
C36_Witness ==
    /\ last.op = "_determine_backend_from_args"
    /\ last.args = List(<<List(<<Obj("builtins"), IvyArray(NativeArray(JaxMod))>>),
                          NativeArray(NumpyMod)>>)
    /\ last.ret = JaxMod

\* C37: the local build suffix is ignored.  For the reported version X of a
\* state and every suffix s, the resolver returns (or raises) for "X+s" what
\* it returned for X, and the version step on the torch module ends with
\* "X+s" as it does with X, binding gelu to the variant that
\* set_backend("torch") bound it to with X.
C37_LocalSuffixIgnored ==
    \A s \in {<<>>, <<"1">>, Chars("rc1"), Chars("+cu117")} :
        /\ ResolveDone =>
              /\ fn_name_from_version_specific_fn_name(
                     ResolvedName, ResolvedVersion \o Chars("+") \o s).err = last.err
              /\ fn_name_from_version_specific_fn_name(
                     ResolvedName, ResolvedVersion \o Chars("+") \o s).ret = last.ret
        /\ (SetDone /\ last.backend = "torch") =>
              /\ set_backend_to_specific_version(
                     BackendDict0(TorchMod), AttrOrder(TorchMod),
                     f_version[TorchMod] \o Chars("+") \o s)
                 = set_backend_to_specific_version(
                       BackendDict0(TorchMod), AttrOrder(TorchMod), f_version[TorchMod])
              /\ Has(set_backend_to_specific_version(
                         BackendDict0(TorchMod), AttrOrder(TorchMod),
                         f_version[TorchMod] \o Chars("+") \o s).backend, "gelu") =>
                     backend_dicts[TorchMod]["gelu"].fn =
                         set_backend_to_specific_version(
                             BackendDict0(TorchMod), AttrOrder(TorchMod),
                             f_version[TorchMod] \o Chars("+") \o s).backend["gelu"].fn

\* gelu_v_1p6_and_above was resolved to gelu for 2.0.0, as it is for
\* 2.0.0+cu117
C37_Witness ==
    /\ ResolveDone
    /\ ResolvedVersion = Chars("2.0.0")
    /\ ResolvedName = Chars("gelu_v_1p6_and_above")
    /\ last.err = "ok"
    /\ last.ret = Chars("gelu")
    /\ fn_name_from_version_specific_fn_name(ResolvedName, Chars("2.0.0+cu117")).ret
           = Chars("gelu")

\* C38: no matching range leaves the canonical name alone.  For a well-formed
\* reported version t that lies in the range of a variant name by no reading
\* (a missing component counting as 0), the resolver returns no name; and
\* after set_backend("torch") with a version in the range of none of the
\* variants of the torch module, the version step has bound no gelu in the
\* module (the gelu found there is the library's one, copied in afterwards by
\* the rebinder), while every version-suffixed attribute is still there
\* under its own key.
C38_NoMatchLeavesCanonicalName ==
    LET Padded(a, b) ==
            TupleLE([i \in 1..MaxParts |-> IF i <= Len(a) THEN a[i] ELSE 0],
                    [i \in 1..MaxParts |-> IF i <= Len(b) THEN b[i] ELSE 0])
        Within(variant, t) ==
            CASE variant.kind = "to" -> Padded(variant.start, t) /\ Padded(t, variant.end)
              [] variant.kind = "above" -> Padded(variant.start, t)
              [] OTHER -> Padded(t, variant.start)
        Reported(version, t) ==
            version \in {Join(t, "."), Join(t, ".") \o Chars("+cu117")}
        Declared ==
            {variant \in Variants :
                \E k \in NativeAttrs(TorchMod) : Chars(k) = NameOf(variant)}
    IN  /\ ResolveDone =>
              \A variant \in Variants, t \in VerTuples :
                  ( /\ NameOf(variant) = ResolvedName
                    /\ Reported(ResolvedVersion, t)
                    /\ ~Within(variant, t) ) =>
                      /\ last.err = "ok"
                      /\ last.ret = NoName
        /\ (SetDone /\ last.backend = "torch") =>
              /\ \A k \in NativeAttrs(TorchMod) :
                    /\ Has(backend_dicts[TorchMod], k)
                    /\ backend_dicts[TorchMod][k].owner = TorchMod
                    /\ backend_dicts[TorchMod][k].fn = k
              /\ \A t \in VerTuples :
                    ( /\ Reported(f_version[TorchMod], t)
                      /\ \A variant \in Declared : ~Within(variant, t) ) =>
                        /\ ~Has(set_backend_to_specific_version(
                                    BackendDict0(TorchMod), AttrOrder(TorchMod),
                                    f_version[TorchMod]).backend, "gelu")
                        /\ Has(backend_dicts[TorchMod], "gelu") =>
                               backend_dicts[TorchMod]["gelu"].owner # TorchMod
        /\ (SetDone /\ last.backend = "tensorflow") =>
              /\ \A k \in NativeAttrs(TensorflowMod) :
                    Has(backend_dicts[TensorflowMod], k)
              /\ \A t \in VerTuples :
                    ( /\ Reported(f_version[TensorflowMod], t)
                      /\ \A variant \in Variants :
                            (\E k \in NativeAttrs(TensorflowMod) : Chars(k) = NameOf(variant))
                                => ~Within(variant, t) ) =>
                        /\ backend_dicts[TensorflowMod]["gelu"].owner = TensorflowMod
                        /\ backend_dicts[TensorflowMod]["gelu"].fn = "gelu"

\* torch reporting 1.5.5, between the two ranges of its gelu variants, was
\* set: both variants are in the module and its gelu is not one of them
C38_Witness ==
    /\ SetDone
    /\ last.backend = "torch"
    /\ f_version[TorchMod] = Join(<<1, 5, 5>>, ".")
    /\ Has(backend_dicts[TorchMod], "gelu_v_1p0_to_1p5")
    /\ Has(backend_dicts[TorchMod], "gelu_v_1p6_and_above")
    /\ Has(backend_dicts[TorchMod], "gelu") => backend_dicts[TorchMod]["gelu"].owner # TorchMod

\* C39: override order.  The tensorflow module defines gelu,
\* gelu_v_1p0_to_1p6 and gelu_v_1p5_to_1p6 in this order: after
\* set_backend("tensorflow"), when the resolver selects some of the variants
\* for the reported version, gelu is the selected variant that comes last in
\* the module's attribute order, in the module and in the public namespace.
C39_LastMatchWins ==
    (SetDone /\ last.backend = "tensorflow") =>
        LET keys == AttrOrder(TensorflowMod)
            matching == {i \in DOMAIN keys :
                            /\ Contains(Chars(keys[i]), Chars("_v_"))
                            /\ Selected(Chars(keys[i]), f_version[TensorflowMod])}
        IN  \A i \in matching :
                (\A j \in matching : j <= i) =>
                    /\ backend_dicts[TensorflowMod]["gelu"].fn = keys[i]
                    /\ backend_dicts[TensorflowMod]["gelu"].name = "gelu"
                    /\ ivy_dict["gelu"].fn = keys[i]

\* tensorflow reporting 1.5.5, for which both variants match, was set
C39_Witness ==
    /\ SetDone
    /\ last.backend = "tensorflow"
    /\ f_version[TensorflowMod] = Join(<<1, 5, 5>>, ".")
    /\ Selected(Chars("gelu_v_1p0_to_1p6"), f_version[TensorflowMod])
    /\ Selected(Chars("gelu_v_1p5_to_1p6"), f_version[TensorflowMod])
    /\ backend_dicts[TensorflowMod]["gelu"].fn = "gelu_v_1p5_to_1p6"
    /\ ivy_dict["gelu"].owner = TensorflowMod

=============================================================================
